---- MODULE Spec2Model ----
(***************************************************************************)
(* StoryWeaverAI: the editor's generation slots (story, brainstorm,       *)
(* suggestions), the prompt-kind / suggestion-mode catalogue with its     *)
(* persistent store, and the tolerant suggestion-reply parser.            *)
(*                                                                         *)
(* Text is modelled as a sequence of tokens.  Chapter content is a        *)
(* sequence of characters ("t" typed, "g" generated, "n" newline); a model *)
(* reply is a sequence of lexical tokens (see Tokens).                     *)
(***************************************************************************)
EXTENDS Integers, Sequences, FiniteSets, TLC

\* ------------------------------------------------------------------------
\* Bounds
\* ------------------------------------------------------------------------
MaxReplyLen == 4
MaxCalls == 4
MaxContent == 4
MaxMessages == 4
NumChapters == 1
MaxTyped == 1
MaxNew == 1
NumCharacters == 3
NumCodex == 3
MaxBookChapters == 2

\* ------------------------------------------------------------------------
\* Generic helpers
\* ------------------------------------------------------------------------
Range(s) == {s[i] : i \in 1..Len(s)}

SeqsUpTo(S, n) == UNION {[1..k -> S] : k \in 0..n}

RECURSIVE Flatten(_)
Flatten(ss) == IF Len(ss) = 0 THEN <<>> ELSE Head(ss) \o Flatten(Tail(ss))

\* ------------------------------------------------------------------------
\* Suggestion reply parser (Editor.tsx, handleGenerateSuggestions 735-793)
\* ------------------------------------------------------------------------
\* Lexical tokens of a model reply:
\*   "["  "]"  ","   array punctuation
\*   "oSD"   {"suggestionSummary":"S1","suggestionDescription":"D1"}
\*   "oN"    {"suggestionSummary":7}            (summary is not a string)
\*   "oX"    {"title":"T"}                      (no summary field)
\*   "oBad"  {"suggestionSummary":"S\x"}        (invalid escape: not JSON)
\*   "fS"    "suggestionSummary": "S3"          (bare field, not a value)
\*   "fD"    "suggestionDescription": "D3"      (bare field, not a value)
\*   "n"     1                                  (a number)
\*   "x"     prose
Tokens == {"[", "]", ",", "oSD", "oN", "oX", "oBad", "fS", "fD", "n", "x"}

Undefined == "undefined"

\* JSON.parse('"' + raw + '"'): the decoded string, or "throw" on a bad escape.
JsonDecodeString(raw) ==
    CASE raw = "S\\u0031" -> "S1"
      [] raw = "S\\x"     -> "throw"
      [] OTHER            -> raw

\* Tokens that JSON.parse accepts as one complete value.
ValueTokens == {"oSD", "oN", "oX", "n"}

\* The JavaScript value JSON.parse yields for a value token, reduced to the
\* two properties the editor reads from it.
JsonValue(tok) ==
    CASE tok = "oSD" -> [kind |-> "object", suggestionSummary |-> JsonDecodeString("S\\u0031"),
                         suggestionDescription |-> JsonDecodeString("D1")]
      [] tok = "oN"  -> [kind |-> "object", suggestionSummary |-> "#7",
                         suggestionDescription |-> Undefined]
      [] tok = "oX"  -> [kind |-> "object", suggestionSummary |-> Undefined,
                         suggestionDescription |-> Undefined]
      [] OTHER       -> [kind |-> "number", suggestionSummary |-> Undefined,
                         suggestionDescription |-> Undefined]

ArrayValue == [kind |-> "array", suggestionSummary |-> Undefined,
               suggestionDescription |-> Undefined]

\* JavaScript truthiness of a property value.
Truthy(v) == v # Undefined /\ v # ""

\* Captures of /"suggestionSummary"\s*:\s*"((?:[^"\\]|\\.)*)"/g inside a token.
SummaryCaptures(tok) ==
    CASE tok = "oSD"  -> <<"S\\u0031">>
      [] tok = "oBad" -> <<"S\\x">>
      [] tok = "fS"   -> <<"S3">>
      [] OTHER        -> <<>>

\* Captures of /"suggestionDescription"\s*:\s*"((?:[^"\\]|\\.)*)"/g inside a token.
DescriptionCaptures(tok) ==
    CASE tok = "oSD" -> <<"D1">>
      [] tok = "fD"  -> <<"D3">>
      [] OTHER       -> <<>>

\* cleanText.match(/\[[\s\S]*\]/): from the first "[" to the last "]".
jsonArrayMatch(text) ==
    LET opens  == {i \in 1..Len(text) : text[i] = "["}
        first  == CHOOSE i \in opens : \A k \in opens : i <= k
        closes == {j \in 1..Len(text) : text[j] = "]" /\ j > first}
        last   == CHOOSE j \in closes : \A k \in closes : j >= k
    IN  IF opens = {} THEN [found |-> FALSE, text |-> <<>>]
        ELSE IF closes = {} THEN [found |-> FALSE, text |-> <<>>]
        ELSE [found |-> TRUE, text |-> SubSeq(text, first, last)]

ParseFail == [ok |-> FALSE, elems |-> <<>>, next |-> 0]

\* JSON.parse restricted to the token grammar
\*   value ::= valueToken | array        array ::= "[" [ value { "," value } ] "]"
RECURSIVE ParseArrayAt(_, _)
RECURSIVE ParseElems(_, _, _)
ParseArrayAt(s, i) ==
    IF i > Len(s) \/ s[i] # "[" THEN ParseFail
    ELSE IF i + 1 <= Len(s) /\ s[i + 1] = "]"
         THEN [ok |-> TRUE, elems |-> <<>>, next |-> i + 2]
         ELSE ParseElems(s, i + 1, <<>>)

ParseElems(s, i, acc) ==
    IF i > Len(s) THEN ParseFail
    ELSE LET v == IF s[i] \in ValueTokens
                  THEN [ok |-> TRUE, val |-> JsonValue(s[i]), next |-> i + 1]
                  ELSE LET r == ParseArrayAt(s, i)
                       IN  [ok |-> r.ok, val |-> ArrayValue, next |-> r.next]
         IN  IF ~v.ok \/ v.next > Len(s) THEN ParseFail
             ELSE IF s[v.next] = "," THEN ParseElems(s, v.next + 1, Append(acc, v.val))
             ELSE IF s[v.next] = "]"
                  THEN [ok |-> TRUE, elems |-> Append(acc, v.val), next |-> v.next + 1]
                  ELSE ParseFail

\* JSON.parse(text) for a text that starts with "[": the array, or a throw.
JsonParseArray(text) ==
    LET r == ParseArrayAt(text, 1)
    IN  IF r.ok /\ r.next = Len(text) + 1 THEN [ok |-> TRUE, elems |-> r.elems]
        ELSE [ok |-> FALSE, elems |-> <<>>]

\* JSON.parse(cleanText) of the whole reply: one value, or a throw.
JsonParseWhole(text) ==
    IF Len(text) = 1 /\ text[1] \in ValueTokens
    THEN [ok |-> TRUE, val |-> JsonValue(text[1])]
    ELSE IF Len(text) >= 1 /\ text[1] = "[" /\ JsonParseArray(text).ok
         THEN [ok |-> TRUE, val |-> ArrayValue]
         ELSE [ok |-> FALSE, val |-> ArrayValue]

\* Strategy 1 (739-746): the array literal.
ArrayStrategy(text) ==
    LET m == jsonArrayMatch(text)
    IN  IF m.found
        THEN LET r == JsonParseArray(m.text) IN IF r.ok THEN r.elems ELSE <<>>
        ELSE <<>>

\* One record of strategy 2 (764-776): both fields decoded, or both raw when
\* either decode throws.
FieldRecord(s, hasDesc, d) ==
    LET ds == JsonDecodeString(s)
        dd == IF hasDesc /\ Truthy(d) THEN JsonDecodeString(d) ELSE ""
    IN  IF ds = "throw" \/ dd = "throw"
        THEN [kind |-> "object", suggestionSummary |-> s,
              suggestionDescription |-> IF hasDesc /\ Truthy(d) THEN d ELSE ""]
        ELSE [kind |-> "object", suggestionSummary |-> ds, suggestionDescription |-> dd]

\* Strategy 2 (749-777): the paired field patterns, zipped by position.
FieldStrategy(text) ==
    LET summaries    == Flatten([i \in 1..Len(text) |-> SummaryCaptures(text[i])])
        descriptions == Flatten([i \in 1..Len(text) |-> DescriptionCaptures(text[i])])
    IN  [i \in 1..Len(summaries) |->
            FieldRecord(summaries[i], i <= Len(descriptions),
                        IF i <= Len(descriptions) THEN descriptions[i] ELSE "")]

\* Strategy 3 (780-789): the whole reply as one object with a truthy summary.
ObjectStrategy(text) ==
    LET r == JsonParseWhole(text)
    IN  IF r.ok /\ Truthy(r.val.suggestionSummary) THEN <<r.val>> ELSE <<>>

\* Variant: the field patterns are tried before the array literal.
ParseCascade_fieldsFirst(text) ==
    LET p1 == FieldStrategy(text)
        p2 == IF Len(p1) = 0 THEN ArrayStrategy(text) ELSE p1
        p3 == IF Len(p2) = 0 THEN ObjectStrategy(text) ELSE p2
    IN  p3

\* The cascade as the handler runs it (736-789): parsedData after each step.
ParseCascade(text) ==
    LET p1 == ArrayStrategy(text)
        p2 == IF Len(p1) = 0
              THEN (IF Len(FieldStrategy(text)) > 0 THEN FieldStrategy(text) ELSE p1)
              ELSE p1
        p3 == IF Len(p2) = 0
              THEN (IF Len(ObjectStrategy(text)) > 0 THEN ObjectStrategy(text) ELSE p2)
              ELSE p2
    IN  p3

ParseFailMessage == "Failed to parse suggestions from LLM response."

\* No reply text is attached to an error.
NoRaw == [attached |-> FALSE, text |-> <<>>]

\* new Error(message): message and stack are built from the message alone;
\* raw is the reply text attached to the error (none is attached).
NewError(message) ==
    [isError |-> TRUE, message |-> message, stack |-> message, raw |-> NoRaw]

\* Lines 735-793 as a function of the reply: the batch, or the thrown error.
ParseSuggestions(text) ==
    LET parsedData == ParseCascade(text)
    IN  IF Len(parsedData) = 0
        THEN [ok |-> FALSE, records |-> <<>>, error |-> NewError(ParseFailMessage)]
        ELSE [ok |-> TRUE, records |-> parsedData, error |-> NewError("")]

\* ------------------------------------------------------------------------
\* Generation slots (Editor.tsx 247-249, 650-831, 866-1063, 1138-1239)
\* ------------------------------------------------------------------------
Slots == {"story", "brainstorm", "suggestions"}

\* config.provider === 'google' takes generateGemini, anything else generateGeneric.
Paths == {"google", "generic"}

\* A call is named by its slot and its position among the calls of the slot.
CallIds == Slots \X (1..MaxCalls)

\* The null of an AbortController ref.
NoCall == 0

ChapterIds == 1..NumChapters

NoBook == [ch \in ChapterIds |-> <<>>]

\* A completion call together with its AbortController and the values its
\* async continuation closed over when the handler was invoked.
\*   st       "unused" | "inflight" | "settled" | "detached" (controller only)
\*   aborted  signal.aborted
\*   req      the provider request: "none" | "running" | "aborted"
\*   prior    the state owned by the slot when the handler was invoked
NoPrior == [content |-> <<>>, messages |-> <<>>, input |-> "", suggestions |-> <<>>]

UnusedCall ==
    [st |-> "unused", aborted |-> FALSE, path |-> "none", req |-> "none",
     book |-> NoBook, chap |-> 0, base |-> <<>>, hist |-> <<>>, auto |-> FALSE,
     prior |-> NoPrior]

\* A call whose await has settled: its controller and closure are garbage.
SettledCall == [UnusedCall EXCEPT !.st = "settled"]

NoError == [set |-> FALSE, short |-> "", full |-> ""]

NoAction == [type |-> "none", prompt |-> "", responseLength |-> 0]

\* Values a failing completion call can throw: an Error with a stack, an
\* Error without one, and a thrown value that is not an Error.
ThrownErrors ==
    { [isError |-> TRUE, message |-> "HTTP Error 500", stack |-> "Error: HTTP Error 500 at", raw |-> NoRaw],
      [isError |-> FALSE, message |-> "", stack |-> "", raw |-> NoRaw] }

\* Texts a story or brainstorm completion can return (response.text || "").
Results == {<<>>, <<"g">>}

\* Replies a suggestion completion returns in the slot specification.
SlotReplies == { <<"[", "oSD", "]">>, <<"fS", "fD">>, <<"x">> }

\* s.slice(0, -k)
JsSliceEnd(s, k) ==
    IF k = 0 THEN <<>>
    ELSE IF k >= Len(s) THEN <<>> ELSE SubSeq(s, 1, Len(s) - k)

\* ------------------------------------------------------------------------
\* State
\* ------------------------------------------------------------------------
VARIABLES
    calls,                   \* CallIds -> call record
    ref,                     \* slot -> call id held by the slot's AbortController ref
    busy,                    \* slot -> isStoryGenerating / isBrainstormGenerating / isGeneratingSuggestions
    errorState,
    chapters,                \* book.chapters: chapter id -> content
    activeChapterId,
    promptInput,
    lastAction,
    brainstormMessages,
    brainstormInput,
    generatedSuggestions,
    autoGenerateSuggestions,
    provider,                \* config.provider of the configured models
    reply, parsePc, parseResult,
    isLoaded,                \* App: isLoaded
    init,                    \* initData: its position and its local variables
    promptKinds,             \* state.promptKinds
    suggestionModes,         \* state.suggestionModes
    suggestionConfig,        \* state.suggestionConfig
    selectedKindId,          \* Editor: selectedKindId
    editingSuggestionModeId, \* Editor: editingSuggestionModeId
    dbPromptKinds,           \* object store promptKinds
    dbSuggestionModes,       \* object store suggestionModes
    dbSettings,              \* object store settings, key "suggestion"
    alertMsg,                \* text of the alert raised by the last handler
    storeLog,                \* store operations called by the last handler
    typingInterval,          \* Editor: typingInterval.current and the closure of its callback
    isTyping,                \* Editor: isTyping
    typingSpeed,             \* suggestionConfig.typingSpeed
    rewrite,                 \* the closure of a rephrase / expand call in flight
    chain,                   \* generateStory: the locals of its character selection
    pure                     \* a pure function of the editor, its arguments and its value

slotVars == <<calls, ref, busy, errorState, chapters, activeChapterId, promptInput,
              lastAction, brainstormMessages, brainstormInput, generatedSuggestions,
              autoGenerateSuggestions>>

parseVars == <<reply, parsePc, parseResult>>

configVars == <<provider>>

catalogVars == <<isLoaded, init, promptKinds, suggestionModes, suggestionConfig,
                 selectedKindId, editingSuggestionModeId, dbPromptKinds,
                 dbSuggestionModes, dbSettings, alertMsg, storeLog>>

typeVars == <<typingInterval, isTyping, typingSpeed, rewrite>>

funVars == <<chain, pure>>

vars == <<slotVars, configVars, parseVars, catalogVars, typeVars, funVars>>

\* typingInterval.current === null
NoInterval ==
    [running |-> FALSE, words |-> <<>>, currentIndex |-> 0, currentContent |-> <<>>,
     book |-> NoBook, chap |-> 0, addedLength |-> 0]

\* No rephrase or expand call is in flight.
\*   suggestion  the card the call rewrites (its summary stands for its id)
NoRewrite == [running |-> FALSE, book |-> NoBook, chap |-> 0, suggestion |-> ""]

\* No reveal is running and nothing is being rewritten; reveals are paced at
\* the default speed (suggestionConfig.typingSpeed ?? 50, 1246).
RevealIdle ==
    /\ typingInterval = NoInterval
    /\ isTyping = FALSE
    /\ typingSpeed = 50
    /\ rewrite = NoRewrite

NoChain == [pc |-> "idle"]

NoPure == [fn |-> "none"]

FunIdle ==
    /\ chain = NoChain
    /\ pure = NoPure

NoResult == [ok |-> FALSE, records |-> <<>>, error |-> NewError("")]

\* ------------------------------------------------------------------------
\* Completion service (services/llmService.ts)
\* ------------------------------------------------------------------------
\* What abort() on the call's signal does to the provider request.
\* generateGeneric hands the signal to fetch; generateGemini only races the
\* SDK promise against the abort event and never passes the signal on.
generateGeneric(req) == IF req = "running" THEN "aborted" ELSE req

generateGemini(req) == req

generateCompletion(path, req) ==
    IF path = "google" THEN generateGemini(req) ELSE generateGeneric(req)

\* controller.abort()
Abort(call) ==
    [call EXCEPT !.aborted = TRUE, !.req = generateCompletion(call.path, call.req)]

\* if (xAbortController.current) xAbortController.current.abort();
AbortCurrent(cs, rf, s) ==
    IF rf[s] = NoCall THEN cs ELSE [cs EXCEPT ![<<s, rf[s]>>] = Abort(@)]

\* Number of controllers created so far, in all slots.
Started(cs) == Cardinality({c \in CallIds : cs[c].st # "unused"})

\* The name of the next controller of slot s.
NextId(cs, s) == <<s, 1 + Cardinality({k \in 1..MaxCalls : cs[<<s, k>>].st # "unused"})>>

NewCall(p, bk, ch, b, h, a, pr) ==
    [st |-> "inflight", aborted |-> FALSE, path |-> p, req |-> "running",
     book |-> bk, chap |-> ch, base |-> b, hist |-> h, auto |-> a, prior |-> pr]

\* handleError (866-870)
handleError(e) ==
    LET msg  == IF e.isError THEN e.message ELSE "An unknown error occurred"
        full == IF e.isError THEN (IF e.stack # "" THEN e.stack ELSE msg) ELSE "json"
    IN  [set |-> TRUE, short |-> msg, full |-> full]

\* abort() rejects the awaited promise at once (part_000 111-121, 163), and
\* the continuation of the aborted handler runs as a microtask, before the
\* next user event or network completion is dispatched.  Quiescent: no such
\* microtask is waiting.
Quiescent == \A c \in CallIds : ~(calls[c].st = "inflight" /\ calls[c].aborted)

\* Variant: the await does not reject when the signal is aborted.
Pending_ignoresAbort(c) == calls[c].st = "inflight" /\ calls[c].req = "running"

\* The await of call c can resolve or fail on its own: it has not been
\* rejected by an abort (part_000 111-121, 163).
Pending(c) ==
    /\ Quiescent
    /\ calls[c].st = "inflight" /\ ~calls[c].aborted /\ calls[c].req = "running"

\* ---- story slot --------------------------------------------------------
Separator(content, result) ==
    IF Len(content) > 0 /\ Len(result) > 0 THEN <<"n", "n">> ELSE <<>>

\* setPromptInput from the prompt textarea
TypePrompt ==
    /\ Quiescent
    /\ promptInput = ""
    /\ promptInput' = "p"
    /\ UNCHANGED <<calls, ref, busy, errorState, chapters, activeChapterId, lastAction,
                   brainstormMessages, brainstormInput, generatedSuggestions,
                   autoGenerateSuggestions, parseVars, configVars, catalogVars, typeVars, funVars>>

\* chapter textarea onChange (1801-1805)
EditContent ==
    /\ Quiescent
    /\ ~isTyping                          \* readOnly={isTyping} (1806)
    /\ Len(chapters[activeChapterId]) < MaxTyped
    /\ chapters' = [chapters EXCEPT ![activeChapterId] = Append(@, "t")]
    /\ lastAction' = NoAction
    /\ UNCHANGED <<calls, ref, busy, errorState, activeChapterId, promptInput,
                   brainstormMessages, brainstormInput, generatedSuggestions,
                   autoGenerateSuggestions, parseVars, configVars, catalogVars, typeVars, funVars>>

\* generateStory up to its await (872-1017), for prompt `activePrompt` and
\* current content `content`.
StartStory(activePrompt, content, p) ==
    /\ Quiescent
    /\ activePrompt # ""
    /\ \E i \in 1..Len(promptKinds) : promptKinds[i].id = selectedKindId
    /\ Started(calls) < MaxCalls
    /\ Len(content) + 3 <= MaxContent
    /\ calls' = [AbortCurrent(calls, ref, "story") EXCEPT ![NextId(calls, "story")] =
                    NewCall(p, chapters, activeChapterId, content, <<>>,
                            autoGenerateSuggestions,
                            [NoPrior EXCEPT !.content = chapters[activeChapterId]])]
    /\ ref' = [ref EXCEPT !["story"] = NextId(calls, "story")[2]]
    /\ busy' = [busy EXCEPT !["story"] = TRUE]
    /\ errorState' = NoError

generateStory ==
    /\ StartStory(promptInput, chapters[activeChapterId], provider)
    /\ UNCHANGED <<chapters, activeChapterId, promptInput, lastAction,
                   brainstormMessages, brainstormInput, generatedSuggestions,
                   autoGenerateSuggestions, parseVars, configVars, catalogVars, typeVars, funVars>>

\* cancelStoryGeneration (1047-1052)
cancelStoryGeneration ==
    /\ Quiescent
    /\ busy["story"]                      \* the Stop button (1868-1869)
    /\ ref["story"] # NoCall
    /\ calls' = AbortCurrent(calls, ref, "story")
    /\ busy' = [busy EXCEPT !["story"] = FALSE]
    /\ UNCHANGED <<ref, errorState, chapters, activeChapterId, promptInput, lastAction,
                   brainstormMessages, brainstormInput, generatedSuggestions,
                   autoGenerateSuggestions, parseVars, configVars, catalogVars, typeVars, funVars>>

\* handleGenerateSuggestions up to its await (650-733), applied to the call
\* table `cs`.
SuggestionCalls(cs, p) ==
    [AbortCurrent(cs, ref, "suggestions") EXCEPT ![NextId(cs, "suggestions")] =
        NewCall(p, NoBook, 0, <<>>, <<>>, FALSE,
                [NoPrior EXCEPT !.suggestions = generatedSuggestions])]

\* The await of generateStory resolves with `result` (1019-1036, 1041-1044).
StoryResolves(c, result) ==
    LET call       == calls[c]
        newContent == call.base \o Separator(call.base, result) \o result
        settled    == [calls EXCEPT ![c] = SettledCall]
    IN  /\ c[1] = "story" /\ Pending(c)
        /\ chapters' = [call.book EXCEPT ![call.chap] = newContent]
        /\ lastAction' = [type |-> "story_gen", prompt |-> "p",
                          responseLength |-> Len(result) + Len(Separator(call.base, result))]
        /\ promptInput' = ""
        /\ IF call.auto
           THEN /\ Started(calls) < MaxCalls
                /\ calls' = SuggestionCalls(settled, provider)
                /\ ref' = [ref EXCEPT !["story"] = NoCall,
                                      !["suggestions"] = NextId(calls, "suggestions")[2]]
                /\ busy' = [busy EXCEPT !["story"] = FALSE, !["suggestions"] = TRUE]
                /\ generatedSuggestions' = <<>>
                /\ errorState' = NoError
           ELSE /\ calls' = settled
                /\ ref' = [ref EXCEPT !["story"] = NoCall]
                /\ busy' = [busy EXCEPT !["story"] = FALSE]
                /\ UNCHANGED <<generatedSuggestions, errorState>>
        /\ UNCHANGED <<activeChapterId, brainstormMessages, brainstormInput,
                       autoGenerateSuggestions, parseVars, configVars, catalogVars, typeVars, funVars>>

StoryResolve == \E c \in CallIds, result \in Results : StoryResolves(c, result)

\* Variant: the append is committed before the outcome of the call is known.
StoryFails_commitsFirst(c, e) ==
    /\ c[1] = "story" /\ Pending(c)
    /\ calls' = [calls EXCEPT ![c] = SettledCall]
    /\ chapters' = [calls[c].book EXCEPT ![calls[c].chap] = calls[c].base \o <<"g">>]
    /\ errorState' = handleError(e)
    /\ ref' = [ref EXCEPT !["story"] = NoCall]
    /\ busy' = [busy EXCEPT !["story"] = FALSE]
    /\ UNCHANGED <<activeChapterId, promptInput, lastAction,
                   brainstormMessages, brainstormInput, generatedSuggestions,
                   autoGenerateSuggestions, parseVars, configVars, catalogVars, typeVars, funVars>>

\* The await of generateStory rejects with `e`, not an AbortError (1038-1044).
StoryFails(c, e) ==
    /\ c[1] = "story" /\ Pending(c)
    /\ calls' = [calls EXCEPT ![c] = SettledCall]
    /\ errorState' = handleError(e)
    /\ ref' = [ref EXCEPT !["story"] = NoCall]
    /\ busy' = [busy EXCEPT !["story"] = FALSE]
    /\ UNCHANGED <<chapters, activeChapterId, promptInput, lastAction,
                   brainstormMessages, brainstormInput, generatedSuggestions,
                   autoGenerateSuggestions, parseVars, configVars, catalogVars, typeVars, funVars>>

StoryFail == \E c \in CallIds, e \in ThrownErrors : StoryFails(c, e)

\* handleRetry (1054-1063)
handleRetry ==
    LET cleanContent == JsSliceEnd(chapters[activeChapterId], lastAction.responseLength)
    IN  /\ lastAction.type = "story_gen"
        /\ ~busy["story"] /\ ~isTyping    \* the Retry button (1873-1877)
        /\ StartStory(lastAction.prompt, cleanContent, provider)
        /\ chapters' = [chapters EXCEPT ![activeChapterId] = cleanContent]
        /\ promptInput' = lastAction.prompt
        /\ UNCHANGED <<activeChapterId, lastAction, brainstormMessages, brainstormInput,
                       generatedSuggestions, autoGenerateSuggestions, parseVars, configVars, catalogVars, typeVars, funVars>>

\* handleRevert (1065-1077) for a story_gen or story_paste action, from the
\* Undo button (1873-1875).
handleRevert ==
    LET cleanContent == JsSliceEnd(chapters[activeChapterId], lastAction.responseLength)
    IN  /\ Quiescent
        /\ lastAction.type \in {"story_gen", "story_paste"}
        /\ ~busy["story"] /\ ~isTyping
        /\ chapters' = [chapters EXCEPT ![activeChapterId] = cleanContent]
        /\ promptInput' = IF lastAction.type = "story_gen" THEN lastAction.prompt ELSE promptInput
        /\ lastAction' = NoAction
        /\ UNCHANGED <<calls, ref, busy, errorState, activeChapterId,
                       brainstormMessages, brainstormInput, generatedSuggestions,
                       autoGenerateSuggestions, parseVars, configVars, catalogVars, typeVars, funVars>>

\* ---- any slot ----------------------------------------------------------
\* Variant: the catch clause does not tell an AbortError from a failure.
AbortedSettles_reported(c) ==
    /\ calls[c].st = "inflight" /\ calls[c].aborted
    /\ calls' = [calls EXCEPT ![c] = SettledCall]
    /\ errorState' = handleError(NewError("The operation was aborted"))
    /\ ref' = [ref EXCEPT ![c[1]] = NoCall]
    /\ busy' = [busy EXCEPT ![c[1]] = FALSE]
    /\ UNCHANGED <<chapters, activeChapterId, promptInput, lastAction,
                   brainstormMessages, brainstormInput, generatedSuggestions,
                   autoGenerateSuggestions, parseVars, configVars, catalogVars, typeVars, funVars>>

\* The await of an aborted call rejects with an AbortError: the catch
\* returns and the finally block runs (818-822, 1039-1043, 1178-1182).
AbortedSettles(c) ==
    /\ calls[c].st = "inflight" /\ calls[c].aborted
    /\ calls' = [calls EXCEPT ![c] = SettledCall]
    /\ ref' = [ref EXCEPT ![c[1]] = NoCall]
    /\ busy' = [busy EXCEPT ![c[1]] = FALSE]
    /\ UNCHANGED <<errorState, chapters, activeChapterId, promptInput, lastAction,
                   brainstormMessages, brainstormInput, generatedSuggestions,
                   autoGenerateSuggestions, parseVars, configVars, catalogVars, typeVars, funVars>>

AbortedSettle == \E c \in CallIds : AbortedSettles(c)

\* error banner close button (1977)
DismissError ==
    /\ Quiescent
    /\ errorState.set
    /\ errorState' = NoError
    /\ UNCHANGED <<calls, ref, busy, chapters, activeChapterId, promptInput, lastAction,
                   brainstormMessages, brainstormInput, generatedSuggestions,
                   autoGenerateSuggestions, parseVars, configVars, catalogVars, typeVars, funVars>>

\* ---- brainstorm slot ---------------------------------------------------
\* setBrainstormInput from the chat textarea
TypeBrainstormInput ==
    /\ Quiescent
    /\ brainstormInput = ""
    /\ brainstormInput' = "q"
    /\ UNCHANGED <<calls, ref, busy, errorState, chapters, activeChapterId, promptInput,
                   lastAction, brainstormMessages, generatedSuggestions,
                   autoGenerateSuggestions, parseVars, configVars, catalogVars, typeVars, funVars>>

\* handleBrainstorm up to its await (1138-1174)
handleBrainstorm ==
    LET userMsg    == [role |-> "user", content |-> brainstormInput]
        newHistory == Append(brainstormMessages, userMsg)
    IN  /\ Quiescent
        /\ brainstormInput # ""
        /\ Started(calls) < MaxCalls
        /\ Len(newHistory) < MaxMessages
        /\ calls' = [AbortCurrent(calls, ref, "brainstorm") EXCEPT ![NextId(calls, "brainstorm")] =
                        NewCall(provider, NoBook, 0, <<>>, newHistory, FALSE,
                                [NoPrior EXCEPT !.messages = brainstormMessages,
                                                !.input = brainstormInput])]
        /\ ref' = [ref EXCEPT !["brainstorm"] = NextId(calls, "brainstorm")[2]]
        /\ brainstormMessages' = newHistory
        /\ brainstormInput' = ""
        /\ busy' = [busy EXCEPT !["brainstorm"] = TRUE]
        /\ errorState' = NoError
        /\ UNCHANGED <<chapters, activeChapterId, promptInput, lastAction,
                       generatedSuggestions, autoGenerateSuggestions, parseVars, configVars, catalogVars, typeVars, funVars>>

\* cancelBrainstorm (1186-1191)
cancelBrainstorm ==
    /\ Quiescent
    /\ busy["brainstorm"]                 \* the Stop button (1571-1572)
    /\ ref["brainstorm"] # NoCall
    /\ calls' = AbortCurrent(calls, ref, "brainstorm")
    /\ busy' = [busy EXCEPT !["brainstorm"] = FALSE]
    /\ UNCHANGED <<ref, errorState, chapters, activeChapterId, promptInput, lastAction,
                   brainstormMessages, brainstormInput, generatedSuggestions,
                   autoGenerateSuggestions, parseVars, configVars, catalogVars, typeVars, funVars>>

\* The await of handleBrainstorm / handleBrainstormRetry resolves
\* (1176, 1180-1183; 1231, 1235-1238).
BrainstormResolves(c, result) ==
    /\ c[1] = "brainstorm" /\ Pending(c)
    /\ brainstormMessages' = Append(calls[c].hist, [role |-> "model", content |-> result])
    /\ calls' = [calls EXCEPT ![c] = SettledCall]
    /\ ref' = [ref EXCEPT !["brainstorm"] = NoCall]
    /\ busy' = [busy EXCEPT !["brainstorm"] = FALSE]
    /\ UNCHANGED <<errorState, chapters, activeChapterId, promptInput, lastAction,
                   brainstormInput, generatedSuggestions, autoGenerateSuggestions, parseVars, configVars, catalogVars, typeVars, funVars>>

BrainstormResolve == \E c \in CallIds, result \in {"a"} : BrainstormResolves(c, result)

\* ... or rejects with something that is not an AbortError (1177-1183, 1232-1238).
BrainstormFails(c, e) ==
    /\ c[1] = "brainstorm" /\ Pending(c)
    /\ calls' = [calls EXCEPT ![c] = SettledCall]
    /\ errorState' = handleError(e)
    /\ ref' = [ref EXCEPT !["brainstorm"] = NoCall]
    /\ busy' = [busy EXCEPT !["brainstorm"] = FALSE]
    /\ UNCHANGED <<chapters, activeChapterId, promptInput, lastAction, brainstormMessages,
                   brainstormInput, generatedSuggestions, autoGenerateSuggestions, parseVars, configVars, catalogVars, typeVars, funVars>>

BrainstormFail == \E c \in CallIds, e \in ThrownErrors : BrainstormFails(c, e)

\* handleBrainstormRetry up to its await (1193-1230).  The controller is
\* replaced before the early return at 1208, which leaves a controller that
\* no completion call listens to.
handleBrainstormRetry ==
    LET n            == Len(brainstormMessages)
        historyForUI == SubSeq(brainstormMessages, 1, n - 1)
        hasUserMsg   == Len(historyForUI) > 0 /\ historyForUI[Len(historyForUI)].role = "user"
    IN  /\ Quiescent
        /\ n >= 2
        /\ brainstormMessages[n].role = "model"
        /\ ~busy["brainstorm"]            \* the Retry button (1576)
        /\ Started(calls) < MaxCalls
        /\ ref' = [ref EXCEPT !["brainstorm"] = NextId(calls, "brainstorm")[2]]
        /\ IF hasUserMsg
           THEN /\ calls' = [AbortCurrent(calls, ref, "brainstorm")
                                EXCEPT ![NextId(calls, "brainstorm")] =
                                NewCall(provider, NoBook, 0, <<>>, historyForUI, FALSE,
                                        [NoPrior EXCEPT !.messages = brainstormMessages,
                                                        !.input = brainstormInput])]
                /\ brainstormMessages' = historyForUI
                /\ busy' = [busy EXCEPT !["brainstorm"] = TRUE]
                /\ errorState' = NoError
           ELSE /\ calls' = [AbortCurrent(calls, ref, "brainstorm")
                                EXCEPT ![NextId(calls, "brainstorm")] =
                                [UnusedCall EXCEPT !.st = "detached"]]
                /\ UNCHANGED <<brainstormMessages, busy, errorState>>
        /\ UNCHANGED <<chapters, activeChapterId, promptInput, lastAction, brainstormInput,
                       generatedSuggestions, autoGenerateSuggestions, parseVars, configVars, catalogVars, typeVars, funVars>>

\* ---- suggestions slot --------------------------------------------------
\* auto-generate checkbox (1683)
ToggleAutoGenerate ==
    /\ Quiescent
    /\ autoGenerateSuggestions' = ~autoGenerateSuggestions
    /\ UNCHANGED <<calls, ref, busy, errorState, chapters, activeChapterId, promptInput,
                   lastAction, brainstormMessages, brainstormInput, generatedSuggestions,
                   parseVars, configVars, catalogVars, typeVars, funVars>>

\* handleGenerateSuggestions up to its await (650-733), from the button.
handleGenerateSuggestions ==
    /\ Quiescent
    /\ ~busy["suggestions"]               \* the Generate Ideas button (1746-1751)
    /\ Started(calls) < MaxCalls
    /\ calls' = SuggestionCalls(calls, provider)
    /\ ref' = [ref EXCEPT !["suggestions"] = NextId(calls, "suggestions")[2]]
    /\ generatedSuggestions' = <<>>
    /\ busy' = [busy EXCEPT !["suggestions"] = TRUE]
    /\ errorState' = NoError
    /\ UNCHANGED <<chapters, activeChapterId, promptInput, lastAction, brainstormMessages,
                   brainstormInput, autoGenerateSuggestions, parseVars, configVars, catalogVars, typeVars, funVars>>

\* cancelSuggestions (826-831)
cancelSuggestions ==
    /\ Quiescent
    /\ busy["suggestions"]                \* the Cancel button (1738-1745)
    /\ ref["suggestions"] # NoCall
    /\ calls' = AbortCurrent(calls, ref, "suggestions")
    /\ busy' = [busy EXCEPT !["suggestions"] = FALSE]
    /\ UNCHANGED <<ref, errorState, chapters, activeChapterId, promptInput, lastAction,
                   brainstormMessages, brainstormInput, generatedSuggestions,
                   autoGenerateSuggestions, parseVars, configVars, catalogVars, typeVars, funVars>>

\* finalSuggestions (795-813), without the detected characters.
finalSuggestions(parsedData) ==
    [i \in 1..Len(parsedData) |->
        [suggestionSummary |-> parsedData[i].suggestionSummary,
         suggestionDescription |-> parsedData[i].suggestionDescription]]

\* The await of handleGenerateSuggestions resolves with `text`: the reply is
\* parsed and either the batch is stored or the parse error is reported
\* (735-823).
SuggestionsResolves(c, text) ==
    LET r == ParseSuggestions(text)
    IN  /\ c[1] = "suggestions" /\ Pending(c)
        /\ IF r.ok
           THEN /\ generatedSuggestions' = finalSuggestions(r.records)
                /\ UNCHANGED errorState
           ELSE /\ errorState' = handleError(r.error)
                /\ UNCHANGED generatedSuggestions
        /\ calls' = [calls EXCEPT ![c] = SettledCall]
        /\ ref' = [ref EXCEPT !["suggestions"] = NoCall]
        /\ busy' = [busy EXCEPT !["suggestions"] = FALSE]
        /\ UNCHANGED <<chapters, activeChapterId, promptInput, lastAction, brainstormMessages,
                       brainstormInput, autoGenerateSuggestions, parseVars, configVars, catalogVars, typeVars, funVars>>

SuggestionsResolve == \E c \in CallIds, text \in SlotReplies : SuggestionsResolves(c, text)

\* ... or rejects with something that is not an AbortError (817-823).
SuggestionsFails(c, e) ==
    /\ c[1] = "suggestions" /\ Pending(c)
    /\ calls' = [calls EXCEPT ![c] = SettledCall]
    /\ errorState' = handleError(e)
    /\ ref' = [ref EXCEPT !["suggestions"] = NoCall]
    /\ busy' = [busy EXCEPT !["suggestions"] = FALSE]
    /\ UNCHANGED <<chapters, activeChapterId, promptInput, lastAction, brainstormMessages,
                   brainstormInput, generatedSuggestions, autoGenerateSuggestions, parseVars, configVars, catalogVars, typeVars, funVars>>

SuggestionsFail == \E c \in CallIds, e \in ThrownErrors : SuggestionsFails(c, e)

\* ------------------------------------------------------------------------
\* Suggestion pasting and the typewriter reveal (Editor.tsx 1243-1396)
\* ------------------------------------------------------------------------
\* Characters matched by \s in the texts of the model.
IsSpace(ch) == ch \in {" ", "n"}

\* The longest prefix of text whose characters are all (isSpace = TRUE) or
\* all not (isSpace = FALSE) white space.
RECURSIVE Run(_, _)
Run(text, isSpace) ==
    IF text = <<>> \/ IsSpace(Head(text)) # isSpace THEN <<>>
    ELSE <<Head(text)>> \o Run(Tail(text), isSpace)

\* text.split(/(\s+)/): the words of text and the separators between them.
RECURSIVE JsSplitKeepingSeparators(_)
JsSplitKeepingSeparators(text) ==
    LET word == Run(text, FALSE)
        rest == SubSeq(text, Len(word) + 1, Len(text))
        sep  == Run(rest, TRUE)
    IN  IF rest = <<>> THEN <<word>>
        ELSE <<word, sep>> \o JsSplitKeepingSeparators(SubSeq(rest, Len(sep) + 1, Len(rest)))

\* The text of a suggestion description and of a rewritten description.
TextOf(description) ==
    IF description = "D1" THEN <<"w", " ", "w">>
    ELSE IF description = "D3" THEN <<"w">>
    ELSE IF description = "R1" THEN <<"w", "w">>
    ELSE <<>>

\* Descriptions a rephrase or expand call can return.
RewriteResults == {"R1", ""}

StoryPaste(addedLength) == [type |-> "story_paste", prompt |-> "", responseLength |-> addedLength]

\* typewriterAppend (1243-1304) called from a render whose book is bk and
\* whose active chapter is ch.
\* `cards` is the suggestion list as the caller leaves it.
typewriterAppend(text, bk, ch, cards) ==
    LET content          == bk[ch]
        initialSeparator == IF content # <<>> THEN <<"n", "n">> ELSE <<>>
        addedLength      == Len(text) + Len(initialSeparator)
    IN  IF typingSpeed <= 0
        THEN /\ chapters' = [bk EXCEPT ![ch] = content \o initialSeparator \o text]
             /\ lastAction' = StoryPaste(addedLength)
             /\ generatedSuggestions' = <<>>
             /\ typingInterval' = NoInterval
             /\ isTyping' = FALSE
        ELSE /\ isTyping' = TRUE
             /\ typingInterval' =
                   [running |-> TRUE, words |-> JsSplitKeepingSeparators(text),
                    currentIndex |-> 1, currentContent |-> content \o initialSeparator,
                    book |-> bk, chap |-> ch, addedLength |-> addedLength]
             /\ generatedSuggestions' = cards
             /\ UNCHANGED <<chapters, lastAction>>

\* handleApplySuggestion (1306-1308) from the Apply button (1644-1650)
handleApplySuggestion(i) ==
    /\ Quiescent
    /\ ~isTyping
    /\ i \in 1..Len(generatedSuggestions)
    /\ typewriterAppend(TextOf(generatedSuggestions[i].suggestionDescription),
                        chapters, activeChapterId, generatedSuggestions)
    /\ UNCHANGED <<calls, ref, busy, errorState, activeChapterId, promptInput,
                   brainstormMessages, brainstormInput, autoGenerateSuggestions,
                   typingSpeed, rewrite, parseVars, configVars, catalogVars, funVars>>

HandleApplySuggestion == \E i \in 1..MaxReplyLen : handleApplySuggestion(i)

\* The callback of setInterval (1280-1303): one tick of the reveal.
Tick ==
    LET ti == typingInterval
    IN  /\ Quiescent
        /\ ti.running
        /\ IF ti.currentIndex > Len(ti.words)
           THEN /\ typingInterval' = NoInterval
                /\ isTyping' = FALSE
                /\ chapters' = [ti.book EXCEPT ![ti.chap] = ti.currentContent]
                /\ lastAction' = StoryPaste(ti.addedLength)
                /\ generatedSuggestions' = <<>>
           ELSE /\ typingInterval' = [ti EXCEPT !.currentContent = @ \o ti.words[ti.currentIndex],
                                                !.currentIndex = @ + 1]
                /\ chapters' = [ti.book EXCEPT ![ti.chap] = typingInterval'.currentContent]
                /\ UNCHANGED <<isTyping, lastAction, generatedSuggestions>>
        /\ UNCHANGED <<calls, ref, busy, errorState, activeChapterId, promptInput,
                       brainstormMessages, brainstormInput, autoGenerateSuggestions,
                       typingSpeed, rewrite, parseVars, configVars, catalogVars, funVars>>

\* handleRephraseSuggestion / handleExpandSuggestion up to their await
\* (1324-1345, 1362-1382), from the Rephrase and Expand buttons (1651-1666).
handleRephraseSuggestion(i) ==
    /\ Quiescent
    /\ ~isTyping
    /\ ~rewrite.running
    /\ i \in 1..Len(generatedSuggestions)
    /\ rewrite' = [running |-> TRUE, book |-> chapters, chap |-> activeChapterId,
                   suggestion |-> generatedSuggestions[i].suggestionSummary]
    /\ UNCHANGED <<slotVars, typingInterval, isTyping, typingSpeed,
                   parseVars, configVars, catalogVars, funVars>>

HandleRephraseSuggestion == \E i \in 1..MaxReplyLen : handleRephraseSuggestion(i)

\* The await of a rephrase / expand call resolves with `result`: the card is
\* updated and the result is appended from the render of the click
\* (1347-1353, 1384-1390).
RephraseResolves(result) ==
    /\ Quiescent
    /\ rewrite.running
    /\ rewrite' = NoRewrite
    /\ typewriterAppend(TextOf(result), rewrite.book, rewrite.chap,
                        [i \in 1..Len(generatedSuggestions) |->
                            IF generatedSuggestions[i].suggestionSummary = rewrite.suggestion
                            THEN [generatedSuggestions[i] EXCEPT !.suggestionDescription = result]
                            ELSE generatedSuggestions[i]])
    /\ UNCHANGED <<calls, ref, busy, errorState, activeChapterId, promptInput,
                   brainstormMessages, brainstormInput, autoGenerateSuggestions,
                   typingSpeed, parseVars, configVars, catalogVars, funVars>>

RephraseResolve == \E result \in RewriteResults : RephraseResolves(result)

\* ... or rejects (1355-1359).
RephraseFails(e) ==
    /\ Quiescent
    /\ rewrite.running
    /\ rewrite' = NoRewrite
    /\ errorState' = handleError(e)
    /\ UNCHANGED <<calls, ref, busy, chapters, activeChapterId, promptInput, lastAction,
                   brainstormMessages, brainstormInput, generatedSuggestions,
                   autoGenerateSuggestions, typingInterval, isTyping, typingSpeed,
                   parseVars, configVars, catalogVars, funVars>>

RephraseFail == \E e \in ThrownErrors : RephraseFails(e)

\* ------------------------------------------------------------------------
\* Codex and character selection of generateStory (Editor.tsx 898-938)
\* ------------------------------------------------------------------------
\* A text is a sequence of letters: word characters, the space, and two of
\* the characters that mean something in a regular expression.
Letters == {"a", "b", "c", "j", "A", "B", "J", "x", " ", ".", "("}

\* String.prototype.toLowerCase on one letter and on a text
LowerLetter(ch) ==
    IF ch = "A" THEN "a" ELSE IF ch = "B" THEN "b" ELSE IF ch = "J" THEN "j" ELSE ch

toLowerCase(text) == [i \in 1..Len(text) |-> LowerLetter(text[i])]

\* String.prototype.includes
includes(text, sub) ==
    \E i \in 1..(Len(text) - Len(sub) + 1) : SubSeq(text, i, i + Len(sub) - 1) = sub

\* The prompts and descriptions of the selection specifications.
SelectionTexts == { <<>>, <<"a">>, <<"x", "b">>, <<"A", "c">>, <<"x">> }

\* The aliases of character number id.
AliasesOf(id) ==
    IF id = 1 THEN << <<"a">> >>
    ELSE IF id = 2 THEN << <<"B">> >>
    ELSE IF id = 3 THEN << <<"c">>, <<"a", "b">> >>
    ELSE << >>

\* The character lists of the selection specifications: characters
\* 1..NumCharacters in book order, each with any description and either
\* value of isGlobal.
CharacterLists ==
    { [id \in 1..NumCharacters |->
          [id |-> id, aliases |-> AliasesOf(id), description |-> d[id], isGlobal |-> g[id]]] :
      d \in [1..NumCharacters -> SelectionTexts], g \in [1..NumCharacters -> BOOLEAN] }

\* The tag lists of the selection specifications.
CodexTagLists == { << >>, << <<"B">> >>, << <<"c">>, <<"a">> >> }

\* The codex lists of the selection specifications: items 1..NumCodex in
\* book order, each with any tag list and either value of isGlobal.
CodexLists ==
    { [id \in 1..NumCodex |-> [id |-> id, tags |-> t[id], isGlobal |-> g[id]]] :
      t \in [1..NumCodex -> CodexTagLists], g \in [1..NumCodex -> BOOLEAN] }

\* A filter that looks at the tags only
IsRelevantCodex_TagsOnly(activePrompt, item) ==
    \E k \in 1..Len(item.tags) : includes(toLowerCase(activePrompt), toLowerCase(item.tags[k]))

\* The filter of relevantCodex (899-902)
IsRelevantCodex(activePrompt, item) ==
    \/ item.isGlobal
    \/ \E k \in 1..Len(item.tags) : includes(toLowerCase(activePrompt), toLowerCase(item.tags[k]))

\* relevantCodex (899-902)
SelectCodex ==
    LET Keep(item) == IsRelevantCodex(pure.activePrompt, item)
    IN  /\ pure.fn = "codex"
        /\ pure' = [pure EXCEPT !.fn = "codexDone", !.relevantCodex = SelectSeq(pure.codex, Keep)]
        /\ UNCHANGED <<slotVars, configVars, parseVars, catalogVars, typeVars, chain>>

\* hasAliasMatch comparing the text and the alias as they are written
hasAliasMatch_CaseSensitive(text, char) ==
    \E k \in 1..Len(char.aliases) : includes(text, char.aliases[k])

\* hasAliasMatch (910-912)
hasAliasMatch(text, char) ==
    \E k \in 1..Len(char.aliases) : includes(toLowerCase(text), toLowerCase(char.aliases[k]))

\* The initial scan (915-922): globals and prompt matches, in book order.
\* No character is in the list twice, so the has() test of 917 always passes.
InitialScan ==
    LET Seed(char) == char.isGlobal \/ hasAliasMatch(chain.prompt, char)
        seeds == SelectSeq(chain.allChars, Seed)
    IN  /\ chain.pc = "scan"
        /\ chain' = [chain EXCEPT !.pc = "chain",
                                  !.relevantChars = seeds,
                                  !.includedCharIds = {seeds[k].id : k \in 1..Len(seeds)},
                                  !.i = 0]
        /\ UNCHANGED <<slotVars, configVars, parseVars, catalogVars, typeVars, pure>>

\* An index that stays where it is
NextIndex_Stuck(i) == i

\* i++ (928)
NextIndex(i) == i + 1

\* One iteration of the chain scan (926-938).
ChainStep ==
    LET currentChar == chain.relevantChars[chain.i + 1]
        Match(candidate) == /\ candidate.id \notin chain.includedCharIds
                            /\ hasAliasMatch(currentChar.description, candidate)
        found == SelectSeq(chain.allChars, Match)
    IN  /\ chain.pc = "chain"
        /\ chain.i < Len(chain.relevantChars)
        /\ IF currentChar.description = <<>>
           THEN chain' = [chain EXCEPT !.i = NextIndex(@)]
           ELSE chain' = [chain EXCEPT !.i = NextIndex(@),
                                       !.relevantChars = @ \o found,
                                       !.includedCharIds = @ \cup {found[k].id : k \in 1..Len(found)}]
        /\ UNCHANGED <<slotVars, configVars, parseVars, catalogVars, typeVars, pure>>

\* The chain scan ends (926).
ChainDone ==
    /\ chain.pc = "chain"
    /\ chain.i >= Len(chain.relevantChars)
    /\ chain' = [chain EXCEPT !.pc = "done"]
    /\ UNCHANGED <<slotVars, configVars, parseVars, catalogVars, typeVars, pure>>

\* ------------------------------------------------------------------------
\* detectCharacters (Editor.tsx 626-648)
\* ------------------------------------------------------------------------
\* The class [.*+?^${}()|[\]\\] of 634
RegexMetacharacters == {".", "*", "+", "?", "^", "$", "{", "}", "(", ")", "|", "[", "]", "\\"}

\* trigger.replace(/[.*+?^${}()|[\]\\]/g, '\\$&') (634): a backslash goes
\* before every metacharacter.
RECURSIVE EscapeRegex(_)
EscapeRegex(trigger) ==
    IF trigger = <<>> THEN <<>>
    ELSE (IF Head(trigger) \in RegexMetacharacters THEN <<"\\", Head(trigger)>> ELSE <<Head(trigger)>>)
         \o EscapeRegex(Tail(trigger))

\* The pattern source read as a regular expression: a backslash makes the
\* next character a literal, a bare dot stands for any character, a bare "("
\* opens a group, any other character of Letters is a literal.
RECURSIVE RegexAtoms(_)
RegexAtoms(source) ==
    IF source = <<>> THEN <<>>
    ELSE IF Head(source) = "\\" /\ Len(source) >= 2
         THEN <<[kind |-> "literal", ch |-> source[2]]>> \o RegexAtoms(Tail(Tail(source)))
    ELSE IF Head(source) = "." THEN <<[kind |-> "any", ch |-> "."]>> \o RegexAtoms(Tail(source))
    ELSE IF Head(source) = "(" THEN <<[kind |-> "group", ch |-> "("]>> \o RegexAtoms(Tail(source))
    ELSE <<[kind |-> "literal", ch |-> Head(source)]>> \o RegexAtoms(Tail(source))

\* new RegExp throws on a group that is never closed (no text of Letters
\* closes one).
RegexCompiles(atoms) == \A k \in 1..Len(atoms) : atoms[k].kind # "group"

\* \w
IsWordCharacter(ch) == ch \in Letters \ {" ", ".", "("}

\* \b between text[p] and text[p + 1]; outside the text there is no word
\* character.
WordBoundary(text, p) ==
    LET before == p >= 1 /\ IsWordCharacter(text[p])
        after == p + 1 <= Len(text) /\ IsWordCharacter(text[p + 1])
    IN  before # after

\* new RegExp(`\\b${escaped}\\b`, 'i').test(text) (637)
RegexTest(atoms, text) ==
    \E p \in 0..(Len(text) - Len(atoms)) :
       /\ WordBoundary(text, p)
       /\ \A n \in 1..Len(atoms) :
             \/ atoms[n].kind = "any"
             \/ atoms[n].kind = "literal" /\ LowerLetter(atoms[n].ch) = LowerLetter(text[p + n])
       /\ WordBoundary(text, p + Len(atoms))

\* t && t.trim().length > 0 (631)
IsBlank(t) == \A k \in 1..Len(t) : t[k] = " "

\* The test of one trigger (633-641)
TriggerMatches(trigger, text) ==
    LET escaped == EscapeRegex(trigger)
        atoms == RegexAtoms(escaped)
    IN  IF RegexCompiles(atoms)
        THEN RegexTest(atoms, text)
        ELSE includes(toLowerCase(text), toLowerCase(trigger))

\* isMatch (633-641)
isMatch(char, text) ==
    LET NotBlank(t) == ~IsBlank(t)
        triggers == SelectSeq(<<char.name>> \o char.aliases, NotBlank)
    IN  \E k \in 1..Len(triggers) : TriggerMatches(triggers[k], text)

\* The texts, names and alias lists of the detection specification.
DetectTexts ==
    { << >>,
      <<"x", " ", "A", ".", "J", ".", " ", "x">>,
      <<"A", "x", "J", "x">>,
      <<"A", ".", "J", ".", "x">>,
      <<"a", ".", "j", ".", "x">>,
      <<"x", "A", ".", "J", ".">>,
      <<"A", ".", "J", ".">>,
      <<"x", " ", "(", "A">> }

DetectNames == { << >>, <<" ">>, <<"J">>, <<"(", "A">> }

DetectAliasLists == { << >>, << <<"A", ".", "J", ".">> >>, << <<" ">>, <<"x">> >> }

DetectCharacterLists ==
    { [id \in 1..NumCharacters |-> [id |-> id, name |-> n[id], aliases |-> a[id]]] :
      n \in [1..NumCharacters -> DetectNames], a \in [1..NumCharacters -> DetectAliasLists] }

\* detectCharacters (626-648): the characters of the book with a matching
\* trigger, in book order.
detectCharacters ==
    LET Matches(char) == isMatch(char, pure.text)
    IN  /\ pure.fn = "detect"
        /\ pure' = [pure EXCEPT !.fn = "detectDone", !.detected = SelectSeq(pure.characters, Matches)]
        /\ UNCHANGED <<slotVars, configVars, parseVars, catalogVars, typeVars, chain>>

\* ------------------------------------------------------------------------
\* parseTemplate (Editor.tsx 319-366)
\* ------------------------------------------------------------------------
\* A text is a sequence of tokens: a run of plain text, a run of whitespace,
\* or a placeholder {kind} or {kind:arg}, arg being the characters after the
\* colon.
Word(str) == [kind |-> "text", arg |-> <<str>>]

Whitespace(str) == [kind |-> "space", arg |-> <<str>>]

Placeholder(kind) == [kind |-> kind, arg |-> <<>>]

PlaceholderN(kind, arg) == [kind |-> kind, arg |-> arg]

\* result.replace(/{kind}/g, replacement) with a string replacement (no
\* text of the template specification holds a "$")
ReplaceWithString(result, kind, replacement) ==
    Flatten([k \in 1..Len(result) |->
                IF result[k] = Placeholder(kind) THEN replacement ELSE <<result[k]>>])

\* (\d+)
Digits == {"0", "1", "2", "3", "4", "5", "6", "7", "8", "9"}

IsDigits(arg) == Len(arg) >= 1 /\ \A k \in 1..Len(arg) : arg[k] \in Digits

\* parseInt(numStr, 10) on a string of digits
DigitValue(d) == CHOOSE v \in 0..9 : <<"0", "1", "2", "3", "4", "5", "6", "7", "8", "9">>[v + 1] = d

RECURSIVE parseInt(_)
parseInt(numStr) ==
    IF numStr = <<>> THEN 0
    ELSE 10 * parseInt(SubSeq(numStr, 1, Len(numStr) - 1)) + DigitValue(numStr[Len(numStr)])

\* String.prototype.trim
RECURSIVE TrimStart(_)
TrimStart(content) ==
    IF content # <<>> /\ Head(content).kind = "space" THEN TrimStart(Tail(content)) ELSE content

RECURSIVE TrimEnd(_)
TrimEnd(content) ==
    IF content # <<>> /\ content[Len(content)].kind = "space"
    THEN TrimEnd(SubSeq(content, 1, Len(content) - 1))
    ELSE content

trim(content) == TrimEnd(TrimStart(content))

\* split(/\s+/) on a trimmed text: the runs between runs of whitespace; the
\* empty text gives one empty run.
RECURSIVE SplitAcc(_, _, _)
SplitAcc(content, current, acc) ==
    IF content = <<>> THEN Append(acc, current)
    ELSE IF Head(content).kind = "space"
         THEN SplitAcc(TrimStart(content), <<>>, Append(acc, current))
         ELSE SplitAcc(Tail(content), Append(current, Head(content)), acc)

splitWhitespace(content) == SplitAcc(content, <<>>, <<>>)

\* words.slice(-n)
sliceLast(words, n) ==
    IF n >= Len(words) THEN words ELSE SubSeq(words, Len(words) - n + 1, Len(words))

\* join(separator)
RECURSIVE join(_, _)
join(parts, separator) ==
    IF parts = <<>> THEN <<>>
    ELSE IF Len(parts) = 1 THEN parts[1]
    ELSE parts[1] \o <<separator>> \o join(Tail(parts), separator)

\* The callback of {lastWords:N} (331-341); currentChapter is <<>> when
\* there is no chapter, else <<chapter>>.
lastWords(numStr, currentChapter) ==
    IF currentChapter = <<>> THEN <<>>
    ELSE LET n == parseInt(numStr)
             words == splitWhitespace(trim(currentChapter[1].content))
         IN  IF n <= 0 THEN <<>>
             ELSE IF Len(words) = 0 \/ (Len(words) = 1 /\ words[1] = <<>>) THEN <<>>
             ELSE join(sliceLast(words, n), Whitespace(" "))

\* [...currentBook.chapters].sort((a, b) => a.order - b.order): the sort is
\* stable.
RECURSIVE InsertByOrder(_, _)
InsertByOrder(sorted, c) ==
    IF sorted = <<>> THEN <<c>>
    ELSE IF sorted[Len(sorted)].order <= c.order THEN Append(sorted, c)
    ELSE Append(InsertByOrder(SubSeq(sorted, 1, Len(sorted) - 1), c), sorted[Len(sorted)])

RECURSIVE sortByOrder(_)
sortByOrder(chapterList) ==
    IF chapterList = <<>> THEN <<>>
    ELSE InsertByOrder(sortByOrder(SubSeq(chapterList, 1, Len(chapterList) - 1)),
                       chapterList[Len(chapterList)])

\* The callback of {chapterSummary:N} (344-353)
chapterSummary(numStr, currentBook) ==
    LET n == parseInt(numStr)
        sortedChapters == sortByOrder(currentBook.chapters)
    IN  IF n <= 0 THEN <<>>
        ELSE IF n <= Len(sortedChapters)
             THEN (IF sortedChapters[n].summary # <<>> THEN sortedChapters[n].summary
                   ELSE <<Word("No summary available")>>)
             ELSE <<Word("Chapter not found")>>

\* A filter that keeps the focus chapter and its ties as well
IsPrevious_Inclusive(order, currentOrder) == order <= currentOrder

\* c.order < currentOrder (359)
IsPrevious(order, currentOrder) == order < currentOrder

\* `[${c.title}]: ${c.summary || 'No summary'}` (362)
StoryEntry(c) ==
    <<Word("[")>> \o c.title \o <<Word("]:"), Whitespace(" ")>>
       \o (IF c.summary # <<>> THEN c.summary ELSE <<Word("No summary")>>)

\* The callback of {storySoFar} (356-363)
storySoFar(currentBook, currentChapter) ==
    LET sorted == sortByOrder(currentBook.chapters)
        currentOrder == IF currentChapter # <<>> THEN currentChapter[1].order
                        ELSE IF Len(sorted) > 0 THEN sorted[Len(sorted)].order + 1 ELSE 0
        Previous(c) == IsPrevious(c.order, currentOrder)
        prev == SelectSeq(sorted, Previous)
    IN  IF Len(prev) = 0 THEN <<Word("No previous story context.")>>
        ELSE join([k \in 1..Len(prev) |-> StoryEntry(prev[k])], Whitespace("\n\n"))

\* result.replace(/{kind:(\d+)}/g, callback) and result.replace(/{kind}/g,
\* callback): what a callback returns is inserted as it is.
ReplaceLastWords(result, currentChapter) ==
    Flatten([k \in 1..Len(result) |->
                IF result[k].kind = "lastWords" /\ IsDigits(result[k].arg)
                THEN lastWords(result[k].arg, currentChapter)
                ELSE <<result[k]>>])

ReplaceChapterSummary(result, currentBook) ==
    Flatten([k \in 1..Len(result) |->
                IF result[k].kind = "chapterSummary" /\ IsDigits(result[k].arg)
                THEN chapterSummary(result[k].arg, currentBook)
                ELSE <<result[k]>>])

ReplaceStorySoFar(result, currentBook, currentChapter) ==
    Flatten([k \in 1..Len(result) |->
                IF result[k] = Placeholder("storySoFar")
                THEN storySoFar(currentBook, currentChapter)
                ELSE <<result[k]>>])

\* parseTemplate (319-366): six replacements, each on the result of the one
\* before.
parseTemplate(text, currentBook, currentChapter) ==
    LET r1 == ReplaceWithString(text, "pov",
                 IF currentBook.pov # <<>> THEN currentBook.pov ELSE <<Word("3rd Person Omniscient")>>)
        r2 == ReplaceWithString(r1, "tense",
                 IF currentBook.tense # <<>> THEN currentBook.tense ELSE <<Word("Past Tense")>>)
        r3 == ReplaceWithString(r2, "currentChapter",
                 IF currentChapter # <<>> THEN currentChapter[1].content ELSE <<>>)
        r4 == ReplaceLastWords(r3, currentChapter)
        r5 == ReplaceChapterSummary(r4, currentBook)
    IN  ReplaceStorySoFar(r5, currentBook, currentChapter)

\* The books, focus chapters and templates of the template specification.
TemplateContents ==
    { << >>,
      <<Whitespace(" "), Word("a"), Whitespace(" "), Word("b"), Whitespace("\n\n"), Word("c"),
        Whitespace(" "), Word("d"), Whitespace(" "), Word("e"), Whitespace("\n")>>,
      <<Word("a"), Whitespace(" "), Placeholder("storySoFar"), Whitespace(" "),
        PlaceholderN("lastWords", <<"3">>)>> }

TemplateSummaries == { << >>, <<Word("s")>> }

TemplateOrders == {1, 2}

TemplateChapterLists ==
    UNION { { [k \in 1..n |-> [id |-> k, title |-> <<Word("T"), Word(ToString(k))>>,
                               summary |-> sm[k], content |-> ct[k], order |-> od[k]]] :
              sm \in [1..n -> TemplateSummaries],
              ct \in [1..n -> TemplateContents],
              od \in [1..n -> TemplateOrders] } : n \in 0..MaxBookChapters }

TemplateBooks ==
    { [pov |-> p, tense |-> t, chapters |-> cs] :
      p \in { << >>, <<Word("First Person")>>, <<Placeholder("tense")>> },
      t \in { << >>, <<Word("Present Tense")>> },
      cs \in TemplateChapterLists }

Templates ==
    { <<Word("x"), Whitespace(" "), Placeholder("storySoFar")>>,
      <<Placeholder("pov"), Whitespace(" "), Placeholder("tense")>>,
      <<Placeholder("currentChapter")>>,
      <<Word("x"), PlaceholderN("chapterSummary", <<"1">>)>>,
      <<Word("x"), PlaceholderN("chapterSummary", <<"3">>)>>,
      <<Word("x"), PlaceholderN("chapterSummary", <<"0">>), Placeholder("pov")>>,
      <<Word("x"), PlaceholderN("chapterSummary", <<"x">>), Placeholder("pov")>>,
      <<PlaceholderN("lastWords", <<"3">>)>>,
      <<PlaceholderN("lastWords", <<"1">>)>>,
      <<PlaceholderN("lastWords", <<"1", "0">>)>>,
      <<Word("x"), PlaceholderN("lastWords", <<"0">>), Placeholder("pov")>>,
      <<Word("x"), PlaceholderN("lastWords", <<"-", "1">>), Placeholder("pov")>>,
      <<Word("x"), PlaceholderN("lastWords", <<"x">>), Placeholder("pov")>> }

\* A template is resolved for a book and a focus chapter of the book, or
\* none.
ResolveTemplate ==
    /\ pure.fn = "template"
    /\ pure' = [pure EXCEPT !.fn = "templateDone",
                            !.result = parseTemplate(pure.text, pure.currentBook, pure.currentChapter)]
    /\ UNCHANGED <<slotVars, configVars, parseVars, catalogVars, typeVars, chain>>

\* ------------------------------------------------------------------------
\* Prompt composition (Editor.tsx 662-724, 940-1000, 1311-1340, 1368-1377)
\* ------------------------------------------------------------------------
\* text.includes(placeholder)
includesToken(text, token) == \E k \in 1..Len(text) : text[k] = token

\* text.replace('{kind}', replacement): a string pattern replaces the first
\* occurrence only.
ReplaceFirst(text, kind, replacement) ==
    IF ~includesToken(text, Placeholder(kind)) THEN text
    ELSE LET k == CHOOSE k \in 1..Len(text) :
                     /\ text[k] = Placeholder(kind)
                     /\ \A j \in 1..(k - 1) : text[j] # Placeholder(kind)
         IN  SubSeq(text, 1, k - 1) \o replacement \o SubSeq(text, k + 1, Len(text))

\* c.summary && c.summary.trim()
IsBlankText(text) == \A k \in 1..Len(text) : text[k].kind = "space"

\* `Name: ${c.name}\nDescription: ${c.description}` joined by blank lines, or
\* the text for no characters (665-667, 1312-1314)
CharacterDetails(chars, none) ==
    IF Len(chars) = 0 THEN <<Word(none)>>
    ELSE join([k \in 1..Len(chars) |->
                 <<Word("Name:"), Whitespace(" ")>> \o chars[k].name
                    \o <<Whitespace("\n"), Word("Description:"), Whitespace(" ")>> \o chars[k].description],
              Whitespace("\n\n"))

\* globalCodexText (672-675, 1316-1319)
GlobalCodexText(currentBook) ==
    LET IsGlobal(item) == item.isGlobal
        globalCodexItems == SelectSeq(currentBook.codex, IsGlobal)
    IN  IF Len(globalCodexItems) = 0 THEN <<Word("No global world context.")>>
        ELSE join([k \in 1..Len(globalCodexItems) |->
                     <<Word("[")>> \o globalCodexItems[k].title \o <<Word("]:"), Whitespace(" ")>>
                        \o globalCodexItems[k].content],
                  Whitespace("\n\n"))

\* A composer that resolves the book-level placeholders before it injects
SuggestionInstruction_ResolveFirst(template, count, charDetailsText, keywordsText, globalCodexText, currentBook, currentChapter) ==
    ReplaceFirst(
       ReplaceFirst(
          ReplaceFirst(
             ReplaceFirst(parseTemplate(template, currentBook, currentChapter),
                          "count", <<Word(ToString(IF count = 0 THEN 5 ELSE count))>>),
             "characters", charDetailsText),
          "keywords", keywordsText),
       "globalCodex", globalCodexText)

\* The instruction of a suggestion batch (679-685)
SuggestionInstruction(template, count, charDetailsText, keywordsText, globalCodexText, currentBook, currentChapter) ==
    parseTemplate(
       ReplaceFirst(
          ReplaceFirst(
             ReplaceFirst(
                ReplaceFirst(template, "count", <<Word(ToString(IF count = 0 THEN 5 ELSE count))>>),
                "characters", charDetailsText),
             "keywords", keywordsText),
          "globalCodex", globalCodexText),
       currentBook, currentChapter)

\* The chapters before the active one that have a summary (693-697, 957-960)
PreviousSummarised(currentBook, currentChapter) ==
    LET Before(c) == /\ currentChapter # <<>>
                     /\ c.order < currentChapter[1].order
                     /\ c.summary # <<>> /\ ~IsBlankText(c.summary)
    IN  SelectSeq(sortByOrder(currentBook.chapters), Before)

\* A test that never finds {storySoFar} in the template
LacksStorySoFar_Always(template) == TRUE

\* !instruction.includes('{storySoFar}') (690-692, 956)
LacksStorySoFar(template) == ~includesToken(template, Placeholder("storySoFar"))

\* contextParts of a suggestion batch (687-716); the contents of the model
\* are shorter than the 9000 characters kept.
SuggestionContextParts(template, currentBook, currentChapter) ==
    LET prev == PreviousSummarised(currentBook, currentChapter)
        summaries == join([k \in 1..Len(prev) |->
                             <<Word("Chapter:"), Whitespace(" ")>> \o prev[k].title
                                \o <<Whitespace("\n"), Word("Summary:"), Whitespace(" ")>> \o prev[k].summary],
                          Whitespace("\n\n"))
    IN  (IF LacksStorySoFar(template) /\ Len(prev) > 0
         THEN << <<Word("STORY SO FAR:"), Whitespace("\n")>> \o summaries >>
         ELSE << >>)
        \o (IF currentChapter # <<>> /\ currentChapter[1].content # <<>>
            THEN << <<Word("CURRENT CHAPTER (Last ~1500 words):"), Whitespace("\n")>>
                       \o currentChapter[1].content >>
            ELSE << >>)

\* handleGenerateSuggestions up to the request (662-724)
composeSuggestionPrompt ==
    LET IsSelected(c) == c.id \in pure.selectedCharIds
        instruction ==
           SuggestionInstruction(pure.template, pure.count,
              CharacterDetails(SelectSeq(pure.currentBook.characters, IsSelected),
                               "No specific characters required."),
              IF IsBlankText(pure.keywords) THEN <<Word("No specific keywords provided.")>>
                                            ELSE pure.keywords,
              GlobalCodexText(pure.currentBook),
              pure.currentBook, pure.currentChapter)
    IN  /\ pure.fn = "compose" /\ pure.composer = "suggestions"
        /\ pure' = [pure EXCEPT
                      !.fn = "composed",
                      !.instruction = instruction,
                      !.fullPrompt =
                         <<Whitespace("\n"), Word("CONTEXT:"), Whitespace("\n")>>
                            \o join(SuggestionContextParts(pure.template, pure.currentBook,
                                                           pure.currentChapter), Whitespace("\n\n"))
                            \o <<Whitespace("\n\n"), Word("TASK:"), Whitespace("\n")>>
                            \o instruction \o <<Whitespace("\n")>>]
        /\ UNCHANGED <<slotVars, configVars, parseVars, catalogVars, typeVars, chain>>

\* The instruction of a story continuation (945-950)
StoryInstruction(template, currentBook, currentChapter) ==
    parseTemplate(
       ReplaceFirst(
          ReplaceFirst(
             ReplaceFirst(template, "Title", currentBook.title),
             "ChapterTitle", currentChapter[1].title),
          "ChapterSummary", currentChapter[1].summary),
       currentBook, currentChapter)

\* contextBlocks of a story continuation (952-985) for the codex items and
\* characters selected at 898-938
StoryContextBlocks(template, currentBook, currentChapter, relevantCodex, relevantChars) ==
    LET prev == PreviousSummarised(currentBook, currentChapter)
        story == join([k \in 1..Len(prev) |->
                         <<Word("[")>> \o prev[k].title \o <<Word("]:"), Whitespace(" ")>>
                            \o prev[k].summary],
                      Whitespace("\n"))
        combinedContextItems ==
           [k \in 1..Len(relevantCodex) |->
               <<Word("[")>> \o relevantCodex[k].title
                  \o (IF relevantCodex[k].isGlobal THEN <<Word(" (Global)")>> ELSE <<>>)
                  \o <<Word("]:"), Whitespace(" ")>> \o relevantCodex[k].content]
           \o [k \in 1..Len(relevantChars) |->
                 <<Word("[")>> \o relevantChars[k].name \o <<Word("]:"), Whitespace(" ")>>
                    \o relevantChars[k].description]
    IN  (IF LacksStorySoFar(template) /\ story # <<>>
         THEN << <<Word("STORY SO FAR:"), Whitespace("\n")>> \o story >>
         ELSE << >>)
        \o (IF Len(combinedContextItems) > 0
            THEN << <<Word("IMPORTANT CONTEXT:"), Whitespace("\n")>>
                       \o join(combinedContextItems, Whitespace("\n")) >>
            ELSE << >>)

\* generateStory from the prompt parts to the request (940-1000); the
\* contents of the model are shorter than the 1500 characters kept.
composeStoryPrompt ==
    LET instruction == StoryInstruction(pure.template, pure.currentBook, pure.currentChapter)
        IsGlobal(item) == item.isGlobal
    IN  /\ pure.fn = "compose" /\ pure.composer = "story"
        /\ pure.currentChapter # <<>>
        /\ pure' = [pure EXCEPT
                      !.fn = "composed",
                      !.instruction = instruction,
                      !.fullPrompt =
                         <<Whitespace("\n")>>
                            \o join(StoryContextBlocks(pure.template, pure.currentBook,
                                       pure.currentChapter,
                                       SelectSeq(pure.currentBook.codex, IsGlobal),
                                       SelectSeq(pure.currentBook.characters,
                                                 LAMBDA c : c.id \in pure.selectedCharIds)),
                                    Whitespace("\n\n"))
                            \o <<Whitespace("\n\n"), Word("Existing Content (Last 1500 chars):"),
                                 Whitespace("\n"), Word("\"")>>
                            \o pure.currentChapter[1].content
                            \o <<Word("\""), Whitespace("\n\n"), Word("Instruction:"), Whitespace("\n")>>
                            \o instruction
                            \o <<Whitespace("\n\n"), Word("Input/Action:"), Whitespace("\n")>>
                            \o pure.text]
        /\ UNCHANGED <<slotVars, configVars, parseVars, catalogVars, typeVars, chain>>

\* The instruction of a rephrase or expand request (1334-1340, 1371-1377)
RefineInstruction(template, default, charText, globalCodexText, text, currentBook, currentChapter) ==
    parseTemplate(
       ReplaceFirst(
          ReplaceFirst(
             ReplaceFirst(IF template # <<>> THEN template ELSE default, "characters", charText),
             "globalCodex", globalCodexText),
          "text", text),
       currentBook, currentChapter)

\* handleRephraseSuggestion and handleExpandSuggestion up to the request
\* (1329-1345, 1366-1382) for the characters detected in the suggestion
composeRefineInstruction ==
    LET IsDetected(c) == c.id \in pure.selectedCharIds
        instruction ==
           RefineInstruction(pure.template,
              IF pure.composer = "rephrase"
              THEN <<Word("Rewrite text:"), Whitespace(" "), Placeholder("text")>>
              ELSE <<Word("Expand text:"), Whitespace(" "), Placeholder("text")>>,
              CharacterDetails(SelectSeq(pure.currentBook.characters, IsDetected),
                               "No specific characters."),
              GlobalCodexText(pure.currentBook),
              pure.text, pure.currentBook, pure.currentChapter)
    IN  /\ pure.fn = "compose" /\ pure.composer \in {"rephrase", "expand"}
        /\ pure' = [pure EXCEPT !.fn = "composed", !.instruction = instruction,
                                !.fullPrompt = instruction]
        /\ UNCHANGED <<slotVars, configVars, parseVars, catalogVars, typeVars, chain>>

\* The books and templates of the composition specification: chapter 1 comes
\* first and may have a summary, chapter 2 follows; one codex item; characters
\* 1..NumCharacters, whose description may hold a book-level placeholder.
ComposeDescriptions == { <<Word("d")>>, <<Placeholder("pov")>>, <<Placeholder("storySoFar")>> }

ComposeBooks ==
    { [title |-> <<Word("Book")>>, pov |-> p, tense |-> << >>,
       chapters |->
          << [id |-> 1, title |-> <<Word("T1")>>, summary |-> s1, content |-> <<Word("a")>>, order |-> 1],
             [id |-> 2, title |-> <<Word("T2")>>, summary |-> <<Word("s2")>>, content |-> << >>, order |-> 2] >>,
       codex |-> << [id |-> 1, title |-> <<Word("Lore")>>, content |-> cc, isGlobal |-> g] >>,
       characters |-> [k \in 1..NumCharacters |->
                          [id |-> k, name |-> <<Word("N"), Word(ToString(k))>>, description |-> d[k]]]] :
      p \in { << >>, <<Word("First Person")>> },
      s1 \in { << >>, <<Word("s1")>> },
      cc \in { <<Word("lore")>>, <<Placeholder("pov")>> },
      g \in BOOLEAN,
      d \in [1..NumCharacters -> ComposeDescriptions] }

ComposeTemplates(composer) ==
    IF composer = "suggestions"
    THEN { <<Placeholder("count"), Whitespace(" "), Placeholder("characters"), Whitespace(" "),
             Placeholder("keywords"), Whitespace(" "), Placeholder("globalCodex")>>,
           <<Placeholder("characters"), Whitespace(" "), Placeholder("characters")>>,
           <<Placeholder("storySoFar"), Whitespace(" "), Placeholder("globalCodex")>> }
    ELSE IF composer = "story"
    THEN { <<Placeholder("Title"), Whitespace(" "), Placeholder("ChapterTitle"), Whitespace(" "),
             Placeholder("ChapterSummary")>>,
           <<Placeholder("storySoFar")>>,
           <<Word("x"), Whitespace(" "), Placeholder("currentChapter")>> }
    ELSE { << >>,
           <<Placeholder("characters"), Whitespace(" "), Placeholder("globalCodex"), Whitespace(" "),
             Placeholder("text")>>,
           <<Placeholder("text"), Whitespace(" "), Placeholder("storySoFar")>> }

\* ------------------------------------------------------------------------
\* Catalogue of prompt kinds and suggestion modes (App.tsx 181-331, 383-436;
\* Editor.tsx 522-622; services/db.ts)
\* ------------------------------------------------------------------------
\* Identifiers are integers.  A prompt kind is [id, text], a suggestion mode
\* is [id, text], where text stands for the editable fields (name, system
\* role, instruction).  The live suggestion config is [activeModeId, text].
NoKind == 0

NoMode == 0

\* editingSuggestionModeId === 'new'
NewMode == -1

\* defaultKind of initData (App.tsx 284-294)
defaultKind == [id |-> 1, text |-> "default"]

DEFAULT_SUGGESTION_MODES ==
    << [id |-> 1, text |-> "plot"], [id |-> 2, text |-> "character"],
       [id |-> 3, text |-> "twist"] >>

DEFAULT_SUGGESTION_CONFIG == [activeModeId |-> 1, text |-> "plot"]

\* Identifiers crypto.randomUUID() can return for new kinds and new modes.
FreshKindIds == (defaultKind.id + 1)..(defaultKind.id + MaxNew)

FreshModeIds == (Len(DEFAULT_SUGGESTION_MODES) + 1)..(Len(DEFAULT_SUGGESTION_MODES) + MaxNew)

Ids(coll) == {coll[i].id : i \in 1..Len(coll)}

\* A new identifier differs from every identifier in use; the model takes
\* the next one above them.
IsFresh(id, used) == \A u \in used : id > u

\* Number of kinds and modes in the catalogue that were added by the user.
Added(kinds, modes) ==
    Cardinality(Ids(kinds) \cap FreshKindIds) + Cardinality(Ids(modes) \cap FreshModeIds)

KindIds == {defaultKind.id} \cup FreshKindIds

ModeIds == Range([i \in 1..Len(DEFAULT_SUGGESTION_MODES) |-> DEFAULT_SUGGESTION_MODES[i].id])
              \cup FreshModeIds

\* coll.find(x => x.id === id), for an id that is present
Find(coll, id) == coll[CHOOSE i \in 1..Len(coll) : coll[i].id = id /\ \A j \in 1..(i - 1) : coll[j].id # id]

\* coll.filter(x => x.id !== id)
RECURSIVE Without(_, _)
Without(coll, id) ==
    IF Len(coll) = 0 THEN <<>>
    ELSE IF Head(coll).id = id THEN Without(Tail(coll), id)
         ELSE <<Head(coll)>> \o Without(Tail(coll), id)

\* coll.map(x => x.id === r.id ? r : x)
Replace(coll, r) == [i \in 1..Len(coll) |-> IF coll[i].id = r.id THEN r ELSE coll[i]]

\* coll.find(x => x.id !== id)?.id || ''
OtherId(coll, id, none) ==
    IF Len(Without(coll, id)) > 0 THEN Without(coll, id)[1].id ELSE none

\* ---- services/db.ts ----------------------------------------------------
\* store.put(record): the record replaces the one stored under its key.
Put(store, r) == {x \in store : x.id # r.id} \cup {r}

\* store.delete(id)
Delete(store, id) == {x \in store : x.id # id}

\* store.getAll(): the records in key order.
RECURSIVE GetAll(_)
GetAll(store) ==
    IF store = {} THEN <<>>
    ELSE LET m == CHOOSE r \in store : \A q \in store : r.id <= q.id
         IN  <<m>> \o GetAll(store \ {m})

NoSettings == [present |-> FALSE, activeModeId |-> NoMode, text |-> ""]

\* saveSettings(..., suggestionConfig, ...)
Stored(config) == [present |-> TRUE, activeModeId |-> config.activeModeId, text |-> config.text]

\* The result of a store write that is not awaited: the write lands (a
\* failure would only be logged, .catch(console.error)).
WriteOutcomes(old, new) == {new}

\* ---- initData (App.tsx 181-331) ----------------------------------------
NoLocals == [pc |-> "getAllBooks", kinds |-> <<>>, modes |-> <<>>,
             config |-> DEFAULT_SUGGESTION_CONFIG, saved |-> 0]

\* catch (err) { console.error } finally { setIsLoaded(true) }  (323-327)
initCatch ==
    /\ init' = [init EXCEPT !.pc = "done"]
    /\ isLoaded' = TRUE
    /\ UNCHANGED <<promptKinds, suggestionModes, suggestionConfig, selectedKindId,
                   editingSuggestionModeId, dbPromptKinds, dbSuggestionModes, dbSettings,
                   alertMsg, storeLog>>

\* await db.getAllBooks() (184)
initGetAllBooks ==
    /\ init.pc = "getAllBooks"
    /\ \/ /\ init' = [init EXCEPT !.pc = "getSettings"]
          /\ UNCHANGED <<isLoaded, promptKinds, suggestionModes, suggestionConfig,
                         selectedKindId, editingSuggestionModeId, dbPromptKinds,
                         dbSuggestionModes, dbSettings, alertMsg, storeLog>>
       \/ initCatch
    /\ UNCHANGED <<slotVars, configVars, parseVars, typeVars, funVars>>

\* await db.getSettings() (185; db.ts 70-99): resolves, rejects, or, when a
\* read other than the first fails, never settles.
initGetSettings ==
    /\ init.pc = "getSettings"
    /\ \/ /\ init' = [init EXCEPT !.pc = "getAllPromptKinds",
                                  !.config = IF dbSettings.present
                                             THEN [activeModeId |-> dbSettings.activeModeId,
                                                   text |-> dbSettings.text]
                                             ELSE DEFAULT_SUGGESTION_CONFIG]
          /\ UNCHANGED <<isLoaded, promptKinds, suggestionModes, suggestionConfig,
                         selectedKindId, editingSuggestionModeId, dbPromptKinds,
                         dbSuggestionModes, dbSettings, alertMsg, storeLog>>
       \/ initCatch
       \/ /\ init' = [init EXCEPT !.pc = "hung"]
          /\ UNCHANGED <<isLoaded, promptKinds, suggestionModes, suggestionConfig,
                         selectedKindId, editingSuggestionModeId, dbPromptKinds,
                         dbSuggestionModes, dbSettings, alertMsg, storeLog>>
    /\ UNCHANGED <<slotVars, configVars, parseVars, typeVars, funVars>>

\* await db.getAllPromptKinds() (186)
initGetAllPromptKinds ==
    /\ init.pc = "getAllPromptKinds"
    /\ \/ /\ init' = [init EXCEPT !.pc = "getAllSuggestionModes",
                                  !.kinds = GetAll(dbPromptKinds)]
          /\ UNCHANGED <<isLoaded, promptKinds, suggestionModes, suggestionConfig,
                         selectedKindId, editingSuggestionModeId, dbPromptKinds,
                         dbSuggestionModes, dbSettings, alertMsg, storeLog>>
       \/ initCatch
    /\ UNCHANGED <<slotVars, configVars, parseVars, typeVars, funVars>>

\* if (!activeModeId || !modes.some(...)) activeModeId = modes[0].id (252-254)
ValidConfig(config, modes) ==
    IF config.activeModeId = NoMode \/ config.activeModeId \notin Ids(modes)
    THEN [config EXCEPT !.activeModeId = modes[1].id]
    ELSE config

\* The synchronous code of initData from the point where the modes are
\* known up to its next await (251-283).
AfterModes(locals, modes) ==
    [locals EXCEPT !.modes = modes,
                   !.config = ValidConfig(locals.config, modes),
                   !.pc = IF Len(locals.kinds) = 0 THEN "savePromptKind" ELSE "saveSettings"]

\* await db.getAllSuggestionModes() (187, 243-244)
initGetAllSuggestionModes ==
    /\ init.pc = "getAllSuggestionModes"
    /\ \/ /\ init' = IF Len(GetAll(dbSuggestionModes)) = 0
                     THEN [init EXCEPT !.pc = "saveSuggestionMode"]
                     ELSE AfterModes(init, GetAll(dbSuggestionModes))
          /\ UNCHANGED <<isLoaded, promptKinds, suggestionModes, suggestionConfig,
                         selectedKindId, editingSuggestionModeId, dbPromptKinds,
                         dbSuggestionModes, dbSettings, alertMsg, storeLog>>
       \/ initCatch
    /\ UNCHANGED <<slotVars, configVars, parseVars, typeVars, funVars>>

\* for (const mode of DEFAULT_SUGGESTION_MODES) await db.saveSuggestionMode(mode) (245-249)
initSaveSuggestionMode ==
    /\ init.pc = "saveSuggestionMode"
    /\ \/ /\ dbSuggestionModes' = Put(dbSuggestionModes, DEFAULT_SUGGESTION_MODES[init.saved + 1])
          /\ init' = IF init.saved + 1 = Len(DEFAULT_SUGGESTION_MODES)
                     THEN AfterModes([init EXCEPT !.saved = 0], DEFAULT_SUGGESTION_MODES)
                     ELSE [init EXCEPT !.saved = @ + 1]
          /\ UNCHANGED <<isLoaded, promptKinds, suggestionModes, suggestionConfig,
                         selectedKindId, editingSuggestionModeId, dbPromptKinds,
                         dbSettings, alertMsg, storeLog>>
       \/ initCatch
    /\ UNCHANGED <<slotVars, configVars, parseVars, typeVars, funVars>>

\* await db.savePromptKind(defaultKind); migratedPromptKinds.push(defaultKind) (283-297)
initSavePromptKind ==
    /\ init.pc = "savePromptKind"
    /\ \/ /\ dbPromptKinds' = Put(dbPromptKinds, defaultKind)
          /\ init' = [init EXCEPT !.pc = "saveSettings", !.kinds = Append(@, defaultKind)]
          /\ UNCHANGED <<isLoaded, promptKinds, suggestionModes, suggestionConfig,
                         selectedKindId, editingSuggestionModeId, dbSuggestionModes,
                         dbSettings, alertMsg, storeLog>>
       \/ initCatch
    /\ UNCHANGED <<slotVars, configVars, parseVars, typeVars, funVars>>

\* await db.saveSettings(...); setState(...); setIsLoaded(true) (309-327), and
\* the initial state of the editor that is mounted on the loaded catalogue
\* (Editor.tsx 175, 200).
initSaveSettings ==
    /\ init.pc = "saveSettings"
    /\ \/ /\ dbSettings' = Stored(init.config)
          /\ promptKinds' = init.kinds
          /\ suggestionModes' = init.modes
          /\ suggestionConfig' = init.config
          /\ selectedKindId' = init.kinds[1].id
          /\ editingSuggestionModeId' = init.config.activeModeId
          /\ isLoaded' = TRUE
          /\ init' = [init EXCEPT !.pc = "done"]
          /\ UNCHANGED <<dbPromptKinds, dbSuggestionModes, alertMsg, storeLog>>
       \/ initCatch
    /\ UNCHANGED <<slotVars, configVars, parseVars, typeVars, funVars>>

\* ---- prompt kinds (Editor.tsx 522-570, App.tsx 388-401) ----------------
\* Variant: only an empty collection is refused.
LastRemaining_emptyOnly(coll) == Len(coll) < 1

\* promptKinds.length <= 1 (Editor.tsx 560, 612)
LastRemaining(coll) == Len(coll) <= 1

\* the prompt kind selector (1819)
selectKind(id) ==
    /\ isLoaded
    /\ id \in Ids(promptKinds) /\ id # selectedKindId
    /\ selectedKindId' = id
    /\ alertMsg' = ""
    /\ storeLog' = <<>>
    /\ UNCHANGED <<isLoaded, init, promptKinds, suggestionModes, suggestionConfig,
                   editingSuggestionModeId, dbPromptKinds, dbSuggestionModes, dbSettings>>
    /\ UNCHANGED <<slotVars, configVars, parseVars, typeVars, funVars>>

\* savePromptKind (545-557) with editingKind = kind, and the effect that
\* selects the first kind when none is selected (266-270).
savePromptKind(kind) ==
    /\ isLoaded
    /\ IF kind.id \in Ids(promptKinds)
       THEN /\ promptKinds' = Replace(promptKinds, kind)
            /\ selectedKindId' = IF selectedKindId = NoKind THEN promptKinds[1].id
                                 ELSE selectedKindId
       ELSE /\ promptKinds' = Append(promptKinds, kind)
            /\ selectedKindId' = kind.id
    /\ dbPromptKinds' \in WriteOutcomes(dbPromptKinds, Put(dbPromptKinds, kind))
    /\ storeLog' = <<"savePromptKind">>
    /\ alertMsg' = ""
    /\ UNCHANGED <<isLoaded, init, suggestionModes, suggestionConfig,
                   editingSuggestionModeId, dbSuggestionModes, dbSettings>>
    /\ UNCHANGED <<slotVars, configVars, parseVars, typeVars, funVars>>

\* openNewPromptKindModal (522-535) followed by Save
addPromptKind ==
    \E id \in FreshKindIds :
        /\ Added(promptKinds, suggestionModes) < MaxNew
        /\ IsFresh(id, Ids(promptKinds) \cup {x.id : x \in dbPromptKinds})
        /\ savePromptKind([id |-> id, text |-> "new"])

\* openEditPromptKindModal(selectedKindId) (537-543), an edit, then Save
editPromptKind ==
    /\ selectedKindId \in Ids(promptKinds)
    /\ Find(promptKinds, selectedKindId).text # "edited"
    /\ savePromptKind([id |-> selectedKindId, text |-> "edited"])

\* deletePromptKind (559-570) and managePromptKinds.delete (App.tsx 397-400)
deletePromptKind(id, confirmed) ==
    /\ isLoaded
    /\ IF LastRemaining(promptKinds)
       THEN /\ alertMsg' = "You must have at least one prompt kind."
            /\ storeLog' = <<>>
            /\ UNCHANGED <<promptKinds, selectedKindId, dbPromptKinds>>
       ELSE IF confirmed
            THEN /\ dbPromptKinds' \in WriteOutcomes(dbPromptKinds, Delete(dbPromptKinds, id))
                 /\ storeLog' = <<"deletePromptKind">>
                 /\ promptKinds' = Without(promptKinds, id)
                 /\ selectedKindId' = IF selectedKindId = id
                                      THEN OtherId(promptKinds, id, NoKind)
                                      ELSE selectedKindId
                 /\ alertMsg' = ""
            ELSE /\ alertMsg' = ""
                 /\ storeLog' = <<>>
                 /\ UNCHANGED <<promptKinds, selectedKindId, dbPromptKinds>>
    /\ UNCHANGED <<isLoaded, init, suggestionModes, suggestionConfig,
                   editingSuggestionModeId, dbSuggestionModes, dbSettings>>
    /\ UNCHANGED <<slotVars, configVars, parseVars, typeVars, funVars>>

DeletePromptKind ==
    \E id \in Ids(promptKinds), confirmed \in BOOLEAN : deletePromptKind(id, confirmed)

\* ---- suggestion modes (Editor.tsx 574-622, App.tsx 383-386, 403-436) ---
\* handleModeChange (574-590) and updateSettings (App.tsx 383-386)
handleModeChange(modeId) ==
    /\ isLoaded
    /\ modeId \in Ids(suggestionModes)
    /\ suggestionConfig' = [activeModeId |-> modeId, text |-> Find(suggestionModes, modeId).text]
    /\ dbSettings' \in WriteOutcomes(dbSettings, Stored(suggestionConfig'))
    /\ storeLog' = <<"saveSettings">>
    /\ alertMsg' = ""
    /\ UNCHANGED <<isLoaded, init, promptKinds, suggestionModes, selectedKindId,
                   editingSuggestionModeId, dbPromptKinds, dbSuggestionModes>>
    /\ UNCHANGED <<slotVars, configVars, parseVars, typeVars, funVars>>

HandleModeChange ==
    \E modeId \in ModeIds : modeId # suggestionConfig.activeModeId /\ handleModeChange(modeId)

\* An update that touches the modes only
updateSuggestionMode_ModesOnly(mode) ==
    /\ suggestionModes' = Replace(suggestionModes, mode)
    /\ dbSuggestionModes' \in WriteOutcomes(dbSuggestionModes, Put(dbSuggestionModes, mode))
    /\ storeLog' = <<"saveSuggestionMode">>
    /\ UNCHANGED <<suggestionConfig, dbSettings>>

\* manageSuggestionModes.update (App.tsx 408-421)
updateSuggestionMode(mode) ==
    /\ suggestionModes' = Replace(suggestionModes, mode)
    /\ dbSuggestionModes' \in WriteOutcomes(dbSuggestionModes, Put(dbSuggestionModes, mode))
    /\ IF suggestionConfig.activeModeId = mode.id
       THEN /\ suggestionConfig' = [suggestionConfig EXCEPT !.text = mode.text]
            /\ dbSettings' \in WriteOutcomes(dbSettings, Stored(suggestionConfig'))
            /\ storeLog' = <<"saveSuggestionMode", "saveSettings">>
       ELSE /\ storeLog' = <<"saveSuggestionMode">>
            /\ UNCHANGED <<suggestionConfig, dbSettings>>

\* saveSuggestionMode (592-609) with the form holding the mode named by
\* editingSuggestionModeId (effect 273-289), edited, and a non-empty name.
saveSuggestionMode ==
    /\ isLoaded
    /\ IF editingSuggestionModeId = NewMode
       THEN \E id \in FreshModeIds :
               /\ Added(promptKinds, suggestionModes) < MaxNew
               /\ IsFresh(id, Ids(suggestionModes) \cup {x.id : x \in dbSuggestionModes})
               /\ suggestionModes' = Append(suggestionModes, [id |-> id, text |-> "new"])
               /\ dbSuggestionModes' \in WriteOutcomes(dbSuggestionModes,
                                             Put(dbSuggestionModes, [id |-> id, text |-> "new"]))
               /\ editingSuggestionModeId' = id
               /\ storeLog' = <<"saveSuggestionMode">>
               /\ UNCHANGED <<suggestionConfig, dbSettings>>
       ELSE /\ editingSuggestionModeId \in Ids(suggestionModes)
            /\ Find(suggestionModes, editingSuggestionModeId).text # "edited"
            /\ updateSuggestionMode([id |-> editingSuggestionModeId, text |-> "edited"])
            /\ UNCHANGED editingSuggestionModeId
    /\ alertMsg' = "Mode Saved"
    /\ UNCHANGED <<isLoaded, init, promptKinds, selectedKindId, dbPromptKinds>>
    /\ UNCHANGED <<slotVars, configVars, parseVars, typeVars, funVars>>

\* the mode selector of the mode editor: an existing mode or 'new'
editSuggestionMode(id) ==
    /\ isLoaded
    /\ id # editingSuggestionModeId
    /\ editingSuggestionModeId' = id
    /\ alertMsg' = ""
    /\ storeLog' = <<>>
    /\ UNCHANGED <<isLoaded, init, promptKinds, suggestionModes, suggestionConfig,
                   selectedKindId, dbPromptKinds, dbSuggestionModes, dbSettings>>
    /\ UNCHANGED <<slotVars, configVars, parseVars, typeVars, funVars>>

EditSuggestionMode == \E id \in Ids(suggestionModes) \cup {NewMode} : editSuggestionMode(id)

\* manageSuggestionModes.delete (App.tsx 422-435)
removeSuggestionMode(id) ==
    LET newModes == Without(suggestionModes, id)
    IN  /\ suggestionModes' = newModes
        /\ dbSuggestionModes' \in WriteOutcomes(dbSuggestionModes, Delete(dbSuggestionModes, id))
        /\ IF suggestionConfig.activeModeId = id /\ Len(newModes) > 0
           THEN /\ suggestionConfig' = [activeModeId |-> newModes[1].id, text |-> newModes[1].text]
                /\ dbSettings' \in WriteOutcomes(dbSettings, Stored(suggestionConfig'))
                /\ storeLog' = <<"deleteSuggestionMode", "saveSettings">>
           ELSE /\ storeLog' = <<"deleteSuggestionMode">>
                /\ UNCHANGED <<suggestionConfig, dbSettings>>

\* deleteSuggestionMode (611-622)
deleteSuggestionMode(id, confirmed) ==
    /\ isLoaded
    /\ IF LastRemaining(suggestionModes)
       THEN /\ alertMsg' = "Must have at least one mode."
            /\ storeLog' = <<>>
            /\ UNCHANGED <<suggestionModes, suggestionConfig, editingSuggestionModeId,
                           dbSuggestionModes, dbSettings>>
       ELSE IF confirmed
            THEN /\ removeSuggestionMode(id)
                 /\ editingSuggestionModeId' = IF editingSuggestionModeId = id
                                               THEN OtherId(suggestionModes, id, NoMode)
                                               ELSE editingSuggestionModeId
                 /\ alertMsg' = ""
            ELSE /\ alertMsg' = ""
                 /\ storeLog' = <<>>
                 /\ UNCHANGED <<suggestionModes, suggestionConfig, editingSuggestionModeId,
                                dbSuggestionModes, dbSettings>>
    /\ UNCHANGED <<isLoaded, init, promptKinds, selectedKindId, dbPromptKinds>>
    /\ UNCHANGED <<slotVars, configVars, parseVars, typeVars, funVars>>

DeleteSuggestionMode ==
    \E id \in Ids(suggestionModes), confirmed \in BOOLEAN : deleteSuggestionMode(id, confirmed)

\* The catalogue after a first load on an empty store.
CatalogLoaded ==
    /\ isLoaded = TRUE
    /\ init = [NoLocals EXCEPT !.pc = "done", !.kinds = <<defaultKind>>,
                               !.modes = DEFAULT_SUGGESTION_MODES]
    /\ promptKinds = <<defaultKind>>
    /\ suggestionModes = DEFAULT_SUGGESTION_MODES
    /\ suggestionConfig = DEFAULT_SUGGESTION_CONFIG
    /\ selectedKindId = defaultKind.id
    /\ editingSuggestionModeId = DEFAULT_SUGGESTION_CONFIG.activeModeId
    /\ dbPromptKinds = {defaultKind}
    /\ dbSuggestionModes = Range(DEFAULT_SUGGESTION_MODES)
    /\ dbSettings = Stored(DEFAULT_SUGGESTION_CONFIG)
    /\ alertMsg = ""
    /\ storeLog = <<>>

\* ------------------------------------------------------------------------
\* Editor specification
\* ------------------------------------------------------------------------
ParseIdle ==
    /\ reply = <<>>
    /\ parsePc = "idle"
    /\ parseResult = NoResult

Init ==
    /\ calls = [c \in CallIds |-> UnusedCall]
    /\ ref = [s \in Slots |-> NoCall]
    /\ busy = [s \in Slots |-> FALSE]
    /\ errorState = NoError
    /\ chapters = [ch \in ChapterIds |-> <<>>]
    /\ activeChapterId = 1
    /\ promptInput = ""
    /\ lastAction = NoAction
    /\ brainstormMessages = <<>>
    /\ brainstormInput = ""
    /\ generatedSuggestions = <<>>
    /\ autoGenerateSuggestions = FALSE
    /\ provider \in Paths
    /\ ParseIdle
    /\ CatalogLoaded
    /\ RevealIdle
    /\ FunIdle

\* The writing pane: the story slot and the suggestion slot, which
\* generateStory couples through auto-generation (1035).
Next ==
    \/ TypePrompt
    \/ EditContent
    \/ generateStory
    \/ cancelStoryGeneration
    \/ StoryResolve
    \/ StoryFail
    \/ handleRetry
    \/ AbortedSettle
    \/ DismissError
    \/ ToggleAutoGenerate
    \/ handleGenerateSuggestions
    \/ cancelSuggestions
    \/ SuggestionsResolve
    \/ SuggestionsFail

Spec == Init /\ [][Next]_vars

\* The brainstorm chat.  Its handlers read and write brainstormMessages,
\* brainstormInput and the brainstorm controller; errorState is the only
\* variable they share with the story and suggestion handlers.
NextBrainstorm ==
    \/ TypeBrainstormInput
    \/ handleBrainstorm
    \/ cancelBrainstorm
    \/ BrainstormResolve
    \/ BrainstormFail
    \/ handleBrainstormRetry
    \/ AbortedSettle
    \/ DismissError

SpecBrainstorm == Init /\ [][NextBrainstorm]_vars

\* The three slots side by side.
NextEditor ==
    \/ Next
    \/ NextBrainstorm

SpecEditor == Init /\ [][NextEditor]_vars

\* The editor with a batch of suggestions on display, which the user applies,
\* rephrases or expands while writing and generating; typingSpeed is 0
\* (instant paste) or 50.
InitReveal ==
    /\ calls = [c \in CallIds |-> UnusedCall]
    /\ ref = [s \in Slots |-> NoCall]
    /\ busy = [s \in Slots |-> FALSE]
    /\ errorState = NoError
    /\ chapters = [ch \in ChapterIds |-> <<>>]
    /\ activeChapterId = 1
    /\ promptInput = ""
    /\ lastAction = NoAction
    /\ brainstormMessages = <<>>
    /\ brainstormInput = ""
    /\ generatedSuggestions = finalSuggestions(ParseSuggestions(<<"[", "oSD", "]">>).records)
    /\ autoGenerateSuggestions = FALSE
    /\ provider = "google"
    /\ ParseIdle
    /\ CatalogLoaded
    /\ typingInterval = NoInterval
    /\ isTyping = FALSE
    /\ typingSpeed \in {0, 50}
    /\ rewrite = NoRewrite
    /\ FunIdle

NextReveal ==
    \/ TypePrompt
    \/ EditContent
    \/ generateStory
    \/ cancelStoryGeneration
    \/ StoryResolve
    \/ StoryFail
    \/ handleRetry
    \/ handleRevert
    \/ AbortedSettle
    \/ HandleApplySuggestion
    \/ Tick
    \/ HandleRephraseSuggestion
    \/ RephraseResolve
    \/ RephraseFail

SpecReveal == InitReveal /\ [][NextReveal]_vars

\* ------------------------------------------------------------------------
\* Properties of the generation slots
\* ------------------------------------------------------------------------
Outstanding(s) ==
    {k \in 1..MaxCalls : calls[<<s, k>>].st = "inflight" /\ ~calls[<<s, k>>].aborted}

\* The state a slot owns.
Owned(s, ch, ms, inp, sg) ==
    [content     |-> IF s = "story" THEN ch[1] ELSE <<>>,
     messages    |-> IF s = "brainstorm" THEN ms ELSE <<>>,
     input       |-> IF s = "brainstorm" THEN inp ELSE "",
     suggestions |-> IF s = "suggestions" THEN sg ELSE <<>>]

\* This step is an explicit stop of the running call c (no new call starts).
StopStep(c) ==
    /\ calls[c].st = "inflight" /\ ~calls[c].aborted
    /\ calls'[c].st = "inflight" /\ calls'[c].aborted
    /\ Started(calls') = Started(calls)

\* This step is the settling of the aborted call c.
AbortSettleStep(c) ==
    /\ calls[c].st = "inflight" /\ calls[c].aborted
    /\ calls'[c].st = "settled"

\* C1: in every slot at most one completion call that has not been cancelled
\* is outstanding.
C1_AtMostOneOutstanding == \A s \in Slots : Cardinality(Outstanding(s)) <= 1

\* C2: stopping an in-flight story call, and the settling of the stopped
\* call, leave the chapter content unchanged and do not populate errorState.
C2_CancelledStoryIsSilent ==
    [][\A k \in 1..MaxCalls :
          (StopStep(<<"story", k>>) \/ AbortSettleStep(<<"story", k>>))
             => /\ chapters' = chapters
                /\ errorState' = errorState
                /\ lastAction' = lastAction]_vars

C2_Witness ==
    /\ ref["story"] = 1
    /\ calls[<<"story", 1>>].st = "inflight" /\ calls[<<"story", 1>>].aborted
    /\ ~busy["story"]
    /\ chapters[1] = <<"t">>
    /\ ~errorState.set

C4_AbortReachesProvider ==
    \A c \in CallIds : calls[c].aborted => calls[c].req # "running"

\* C5: a story call that fails commits nothing to the chapter and records
\* the failure as a short message plus a full diagnostic.
C5_FailedStoryCommitsNothing ==
    [][\A k \in 1..MaxCalls, e \in ThrownErrors :
          StoryFails(<<"story", k>>, e)
             => /\ chapters' = chapters
                /\ lastAction' = lastAction
                /\ errorState'.set
                /\ errorState'.short # ""
                /\ errorState'.full # ""]_vars

C5_Witness ==
    /\ Started(calls) = 1
    /\ calls[<<"story", 1>>].st = "settled"
    /\ errorState.set
    /\ errorState.short = "HTTP Error 500"
    /\ errorState.full = "Error: HTTP Error 500 at"
    /\ chapters[1] = <<"t">>
    /\ lastAction = NoAction

\* ------------------------------------------------------------------------
\* Parser specification: every reply up to MaxReplyLen tokens is parsed once.
\* ------------------------------------------------------------------------
AllReplies == SeqsUpTo(Tokens, MaxReplyLen)

EditorIdle ==
    /\ calls = [c \in CallIds |-> UnusedCall]
    /\ ref = [s \in Slots |-> NoCall]
    /\ busy = [s \in Slots |-> FALSE]
    /\ errorState = NoError
    /\ chapters = [ch \in ChapterIds |-> <<>>]
    /\ activeChapterId = 1
    /\ promptInput = ""
    /\ lastAction = NoAction
    /\ brainstormMessages = <<>>
    /\ brainstormInput = ""
    /\ generatedSuggestions = <<>>
    /\ autoGenerateSuggestions = FALSE
    /\ provider = "google"
    /\ CatalogLoaded
    /\ RevealIdle

SlotsIdle ==
    /\ EditorIdle
    /\ FunIdle

InitParse ==
    /\ reply \in AllReplies
    /\ parsePc = "start"
    /\ parseResult = NoResult
    /\ SlotsIdle

RunParse ==
    /\ parsePc = "start"
    /\ parseResult' = ParseSuggestions(reply)
    /\ parsePc' = "done"
    /\ UNCHANGED <<reply, slotVars, configVars, catalogVars, typeVars, funVars>>

NextParse == RunParse

SpecParse == InitParse /\ [][NextParse]_vars

\* ------------------------------------------------------------------------
\* Catalogue specification: the application loads from a store that holds
\* nothing, or what an earlier session left, and the catalogue is edited.
\* ------------------------------------------------------------------------
\* The store of a first run, and stores left behind by earlier sessions: one
\* whose settings name a mode that is no longer stored, one without settings.
Stores ==
    { [kinds |-> {}, modes |-> {}, settings |-> NoSettings],
      [kinds |-> {[defaultKind EXCEPT !.text = "edited"]},
       modes |-> {DEFAULT_SUGGESTION_MODES[2]},
       settings |-> Stored(DEFAULT_SUGGESTION_CONFIG)],
      [kinds |-> {defaultKind},
       modes |-> {DEFAULT_SUGGESTION_MODES[2], DEFAULT_SUGGESTION_MODES[3]},
       settings |-> NoSettings] }

InitCatalog ==
    /\ isLoaded = FALSE
    /\ init = NoLocals
    /\ promptKinds = <<>>
    /\ suggestionModes = <<>>
    /\ suggestionConfig = DEFAULT_SUGGESTION_CONFIG
    /\ selectedKindId = NoKind
    /\ editingSuggestionModeId = DEFAULT_SUGGESTION_CONFIG.activeModeId
    /\ \E store \in Stores :
          /\ dbPromptKinds = store.kinds
          /\ dbSuggestionModes = store.modes
          /\ dbSettings = store.settings
    /\ alertMsg = ""
    /\ storeLog = <<>>
    /\ calls = [c \in CallIds |-> UnusedCall]
    /\ ref = [s \in Slots |-> NoCall]
    /\ busy = [s \in Slots |-> FALSE]
    /\ errorState = NoError
    /\ chapters = [ch \in ChapterIds |-> <<>>]
    /\ activeChapterId = 1
    /\ promptInput = ""
    /\ lastAction = NoAction
    /\ brainstormMessages = <<>>
    /\ brainstormInput = ""
    /\ generatedSuggestions = <<>>
    /\ autoGenerateSuggestions = FALSE
    /\ provider = "google"
    /\ ParseIdle
    /\ RevealIdle
    /\ FunIdle

NextCatalog ==
    \/ initGetAllBooks
    \/ initGetSettings
    \/ initGetAllPromptKinds
    \/ initGetAllSuggestionModes
    \/ initSaveSuggestionMode
    \/ initSavePromptKind
    \/ initSaveSettings
    \/ \E id \in KindIds : selectKind(id)
    \/ addPromptKind
    \/ editPromptKind
    \/ DeletePromptKind
    \/ HandleModeChange
    \/ saveSuggestionMode
    \/ EditSuggestionMode
    \/ DeleteSuggestionMode

SpecCatalog == InitCatalog /\ [][NextCatalog]_vars

\* A step of initData.  initData is one async function started by the mount
\* effect (181-331): each of its awaits is followed by its continuation as
\* soon as the awaited store operation settles.
InitDataStep ==
    \/ initGetAllBooks
    \/ initGetSettings
    \/ initGetAllPromptKinds
    \/ initGetAllSuggestionModes
    \/ initSaveSuggestionMode
    \/ initSavePromptKind
    \/ initSaveSettings

SpecCatalogLive == SpecCatalog /\ WF_vars(InitDataStep)

\* ------------------------------------------------------------------------
\* Properties of the catalogue
\* ------------------------------------------------------------------------
\* C6: once loading has completed, at least one prompt kind exists.
C6_PromptKindsNeverEmpty == isLoaded => Len(promptKinds) >= 1

\* C7: an attempt to delete the only prompt kind, or the only suggestion
\* mode, changes neither the collection in memory nor the store, calls no
\* store operation, and raises an alert.
C7_LastDeleteRejected ==
    [][/\ Len(promptKinds) = 1 =>
             \A id \in KindIds, confirmed \in BOOLEAN :
                deletePromptKind(id, confirmed)
                   => /\ promptKinds' = promptKinds
                      /\ dbPromptKinds' = dbPromptKinds
                      /\ selectedKindId' = selectedKindId
                      /\ storeLog' = <<>>
                      /\ alertMsg' # ""
       /\ Len(suggestionModes) = 1 =>
             \A id \in ModeIds, confirmed \in BOOLEAN :
                deleteSuggestionMode(id, confirmed)
                   => /\ suggestionModes' = suggestionModes
                      /\ suggestionConfig' = suggestionConfig
                      /\ dbSuggestionModes' = dbSuggestionModes
                      /\ dbSettings' = dbSettings
                      /\ storeLog' = <<>>
                      /\ alertMsg' # ""]_vars

C7_Witness ==
    /\ isLoaded
    /\ Len(suggestionModes) = 1
    /\ Len(promptKinds) = 1
    /\ alertMsg = "Must have at least one mode."
    /\ storeLog = <<>>
    /\ dbSuggestionModes = Range(suggestionModes)

\* ------------------------------------------------------------------------
\* Properties of the suggestion parser
\* ------------------------------------------------------------------------
\* C8: when the reply of a suggestion call cannot be parsed, the suggestion
\* list is empty afterwards and the parse failure is in errorState.
C8_ParseFailureLeavesListEmpty ==
    [][\A k \in 1..MaxCalls, text \in SlotReplies :
          SuggestionsResolves(<<"suggestions", k>>, text) /\ ~ParseSuggestions(text).ok
             => /\ generatedSuggestions' = <<>>
                /\ errorState'.set
                /\ errorState'.short = ParseFailMessage]_vars

\* C9: parsing fails exactly when all three strategies yield no record, and
\* the failure is the parse error carrying the raw reply text.
C9_ParseErrorCarriesRawText ==
    parsePc = "done" =>
        IF Len(ArrayStrategy(reply)) = 0 /\ Len(FieldStrategy(reply)) = 0
              /\ Len(ObjectStrategy(reply)) = 0
        THEN /\ ~parseResult.ok
             /\ parseResult.error.message = ParseFailMessage
             /\ parseResult.error.raw = [attached |-> TRUE, text |-> reply]
        ELSE parseResult.ok

\* C10: the batch is the output of the first of the array-literal, paired
\* field-pattern and single-object strategies that yields a record; a valid
\* array gives the array's records, and bare fields without a valid array
\* give the zipped records.
C10_OrderedCascade ==
    parsePc = "done" =>
        /\ parseResult.records =
              IF Len(ArrayStrategy(reply)) > 0 THEN ArrayStrategy(reply)
              ELSE IF Len(FieldStrategy(reply)) > 0 THEN FieldStrategy(reply)
              ELSE ObjectStrategy(reply)
        /\ reply = <<"[", "oSD", "]", "oBad">>
              => parseResult.records =
                    << [kind |-> "object", suggestionSummary |-> "S1",
                        suggestionDescription |-> "D1"] >>
        /\ reply = <<"fS", "fD">>
              => parseResult.records =
                    << [kind |-> "object", suggestionSummary |-> "S3",
                        suggestionDescription |-> "D3"] >>

C10_Witness ==
    /\ parsePc = "done"
    /\ reply = <<"[", "oSD", "]", "oBad">>
    /\ Len(parseResult.records) = 1
    /\ Len(FieldStrategy(reply)) = 2

\* A property value that is a string: neither absent nor the number 7.
IsText(v) == v # Undefined /\ v # "#7"

\* C29: every suggestion of a parsed batch comes from an object of the reply
\* and has a text as its summary.
C29_SuggestionsHaveTextSummary ==
    (parsePc = "done" /\ parseResult.ok) =>
        \A i \in 1..Len(parseResult.records) :
           /\ parseResult.records[i].kind = "object"
           /\ IsText(finalSuggestions(parseResult.records)[i].suggestionSummary)

\* ------------------------------------------------------------------------
\* Selection specification: generateStory selects the characters of a book
\* for a prompt.
\* ------------------------------------------------------------------------
InitChain ==
    /\ EditorIdle
    /\ ParseIdle
    /\ pure = NoPure
    /\ \E prompt \in SelectionTexts, chars \in CharacterLists :
          chain = [pc |-> "scan", prompt |-> prompt, allChars |-> chars,
                   includedCharIds |-> {}, relevantChars |-> <<>>, i |-> 0]

NextChain ==
    \/ InitialScan
    \/ ChainStep
    \/ ChainDone

SpecChain == InitChain /\ [][NextChain]_vars

\* The loop of generateStory runs to completion: nothing suspends it.
SpecChainLive == SpecChain /\ WF_vars(NextChain)

\* ------------------------------------------------------------------------
\* Codex specification: generateStory selects the codex items of a book for
\* a prompt.
\* ------------------------------------------------------------------------
InitCodex ==
    /\ EditorIdle
    /\ ParseIdle
    /\ chain = NoChain
    /\ \E prompt \in SelectionTexts, codex \in CodexLists :
          pure = [fn |-> "codex", activePrompt |-> prompt, codex |-> codex, relevantCodex |-> <<>>]

NextCodex == SelectCodex

SpecCodex == InitCodex /\ [][NextCodex]_vars

\* ------------------------------------------------------------------------
\* Detection specification: detectCharacters tags a text with the characters
\* of the book.
\* ------------------------------------------------------------------------
InitDetect ==
    /\ EditorIdle
    /\ ParseIdle
    /\ chain = NoChain
    /\ \E text \in DetectTexts, chars \in DetectCharacterLists :
          pure = [fn |-> "detect", text |-> text, characters |-> chars, detected |-> <<>>]

NextDetect == detectCharacters

SpecDetect == InitDetect /\ [][NextDetect]_vars

\* ------------------------------------------------------------------------
\* Template specification: parseTemplate resolves a template for a book and
\* a focus chapter.
\* ------------------------------------------------------------------------
InitTemplate ==
    /\ EditorIdle
    /\ ParseIdle
    /\ chain = NoChain
    /\ \E text \in Templates, bk \in TemplateBooks :
          \E focus \in {<<>>} \cup {<<bk.chapters[k]>> : k \in 1..Len(bk.chapters)} :
             pure = [fn |-> "template", text |-> text, currentBook |-> bk,
                     currentChapter |-> focus, result |-> <<>>]

NextTemplate == ResolveTemplate

SpecTemplate == InitTemplate /\ [][NextTemplate]_vars

\* ------------------------------------------------------------------------
\* Composition specification: the composers build the prompt of a story
\* continuation, a suggestion batch, a rephrase or an expand request.
\* ------------------------------------------------------------------------
InitCompose ==
    /\ EditorIdle
    /\ ParseIdle
    /\ chain = NoChain
    /\ \E composer \in {"suggestions", "story", "rephrase", "expand"}, bk \in ComposeBooks :
          \E template \in ComposeTemplates(composer),
             focus \in {<<bk.chapters[2]>>} \cup (IF composer = "story" THEN {} ELSE {<<>>}),
             selected \in {{}, {1}, 1..NumCharacters},
             count \in (IF composer = "suggestions" THEN {0, 3} ELSE {0}),
             keywords \in (IF composer = "suggestions" THEN {<<Whitespace(" ")>>, <<Word("k")>>}
                                                       ELSE {<<>>}),
             text \in (IF composer = "suggestions" THEN {<<>>}
                       ELSE {<<Word("t")>>, <<Placeholder("pov")>>}) :
             pure = [fn |-> "compose", composer |-> composer, template |-> template,
                     currentBook |-> bk, currentChapter |-> focus, selectedCharIds |-> selected,
                     count |-> count, keywords |-> keywords, text |-> text,
                     instruction |-> <<>>, fullPrompt |-> <<>>]

NextCompose ==
    \/ composeSuggestionPrompt
    \/ composeStoryPrompt
    \/ composeRefineInstruction

SpecCompose == InitCompose /\ [][NextCompose]_vars

\* ------------------------------------------------------------------------
\* Properties of the character selection
\* ------------------------------------------------------------------------
\* An alias of character c occurs in the text, whatever the case of either.
AliasOccurs(text, c) ==
    \E k \in 1..Len(c.aliases) :
       \E j \in 1..(Len(text) - Len(c.aliases[k]) + 1) :
          \A n \in 1..Len(c.aliases[k]) :
             LowerLetter(text[j + n - 1]) = LowerLetter(c.aliases[k][n])

CharsOf(list) == {list[k] : k \in 1..Len(list)}

\* The seed set: the global characters and those named by the prompt.
SeedSet == {c \in CharsOf(chain.allChars) : c.isGlobal \/ AliasOccurs(chain.prompt, c)}

\* The least set that holds S and every character named in the description
\* of one of its members.
RECURSIVE TransitiveClosure(_)
TransitiveClosure(S) ==
    LET more == {c \in CharsOf(chain.allChars) : \E x \in S : AliasOccurs(x.description, c)}
    IN  IF more \subseteq S THEN S ELSE TransitiveClosure(S \cup more)

\* C13: the characters selected for a prompt are exactly the transitive
\* closure of the seed set (global characters and characters with an alias
\* occurring in the prompt, case-insensitively) under "an alias occurs in the
\* description of an included character".
C13_SelectionIsClosure ==
    chain.pc = "done" => CharsOf(chain.relevantChars) = TransitiveClosure(SeedSet)

\* The selection is done for a prompt naming character 1 only, whose
\* description names character 2 in another case; nobody is global and
\* nobody names character 3: characters 1 and 2 are selected, in this order.
C13_Witness ==
    /\ chain.pc = "done"
    /\ chain.prompt = <<"a">>
    /\ \A k \in 1..NumCharacters : ~chain.allChars[k].isGlobal
    /\ chain.allChars[1].description = <<"x", "b">>
    /\ chain.allChars[2].description = <<>>
    /\ Len(chain.relevantChars) = 2
    /\ chain.relevantChars[1].id = 1
    /\ chain.relevantChars[2].id = 2

\* C14: the chain scan terminates for every character list, also when
\* descriptions name each other in a cycle, and no character is selected
\* twice.
C14_ChainTerminates ==
    /\ <>(chain.pc = "done")
    /\ [](\A j, k \in 1..Len(chain.relevantChars) :
            chain.relevantChars[j].id = chain.relevantChars[k].id => j = k)

\* The selection is done for two characters whose descriptions name each
\* other: each is selected once.
C14_Witness ==
    /\ chain.pc = "done"
    /\ chain.prompt = <<"a">>
    /\ \A k \in 1..NumCharacters : ~chain.allChars[k].isGlobal
    /\ chain.allChars[1].description = <<"x", "b">>
    /\ chain.allChars[2].description = <<"a">>
    /\ chain.i = 2
    /\ chain.includedCharIds = {1, 2}
    /\ Len(chain.relevantChars) = 2

\* ------------------------------------------------------------------------
\* Properties of the codex selection
\* ------------------------------------------------------------------------
\* A tag of the item occurs in the text, whatever the case of either.
TagOccurs(text, item) ==
    \E k \in 1..Len(item.tags) :
       \E j \in 1..(Len(text) - Len(item.tags[k]) + 1) :
          \A n \in 1..Len(item.tags[k]) :
             LowerLetter(text[j + n - 1]) = LowerLetter(item.tags[k][n])

\* The position of an item in the codex of the book.
PositionInCodex(item) == CHOOSE p \in 1..Len(pure.codex) : pure.codex[p] = item

\* C15: the codex selection returns exactly the items that are global or have
\* a tag occurring in the prompt case-insensitively, in the order of the
\* book, each once.
C15_CodexSelection ==
    pure.fn = "codexDone" =>
       LET out == pure.relevantCodex
       IN  /\ {out[k] : k \in 1..Len(out)} =
                 {item \in {pure.codex[p] : p \in 1..Len(pure.codex)} :
                     item.isGlobal \/ TagOccurs(pure.activePrompt, item)}
           /\ \A j, k \in 1..Len(out) :
                 j < k => /\ out[j] # out[k]
                          /\ PositionInCodex(out[j]) < PositionInCodex(out[k])

\* The codex is selected for a prompt with a "b": item 1 is global and has a
\* matching tag as well, item 2 has tags that do not occur, item 3 has the
\* tag "B": items 1 and 3 are returned, in this order.
C15_Witness ==
    /\ pure.fn = "codexDone"
    /\ pure.activePrompt = <<"x", "b">>
    /\ pure.codex[1].isGlobal /\ pure.codex[1].tags = << <<"B">> >>
    /\ ~pure.codex[2].isGlobal /\ pure.codex[2].tags = << <<"c">>, <<"a">> >>
    /\ ~pure.codex[3].isGlobal /\ pure.codex[3].tags = << <<"B">> >>
    /\ Len(pure.relevantCodex) = 2
    /\ pure.relevantCodex[1].id = 1
    /\ pure.relevantCodex[2].id = 3

\* ------------------------------------------------------------------------
\* Properties of the character detection
\* ------------------------------------------------------------------------
\* The text contains the trigger, letter for letter (whatever the case).
ContainsLiteral(text, trigger) ==
    \E j \in 1..(Len(text) - Len(trigger) + 1) :
       \A n \in 1..Len(trigger) : LowerLetter(text[j + n - 1]) = LowerLetter(trigger[n])

\* C16: a character whose only trigger is the alias "A.J." is detected in a
\* text exactly when the text contains the literal "A.J.": the dots are no
\* wildcards, and a text such as "x A.J. x" matches.
C16_EscapedAliasMatchesLiteral ==
    pure.fn = "detectDone" =>
       \A k \in 1..Len(pure.characters) :
          LET char == pure.characters[k]
          IN  (IsBlank(char.name) /\ char.aliases = << <<"A", ".", "J", ".">> >>) =>
                 ((\E d \in 1..Len(pure.detected) : pure.detected[d].id = char.id)
                     <=> ContainsLiteral(pure.text, <<"A", ".", "J", ".">>))

\* ------------------------------------------------------------------------
\* Properties of the template resolution
\* ------------------------------------------------------------------------
\* The entry of a chapter in the story so far.
EntryOf(c) ==
    <<Word("["), c.title[1], c.title[2], Word("]:"), Whitespace(" ")>>
       \o (IF c.summary = <<>> THEN <<Word("No summary")>> ELSE c.summary)

\* The entries of the chapters numbered f[1], f[2], ... separated by blank
\* lines.
RECURSIVE EntriesOf(_, _)
EntriesOf(chapterList, f) ==
    IF Len(f) = 0 THEN <<>>
    ELSE EntryOf(chapterList[f[1]])
         \o (IF Len(f) = 1 THEN <<>> ELSE <<Whitespace("\n\n")>> \o EntriesOf(chapterList, Tail(f)))

\* The chapters that come before the focus chapter; all of them when there
\* is no focus chapter.
Qualifying ==
    {k \in 1..Len(pure.currentBook.chapters) :
        pure.currentChapter = <<>> \/ pure.currentBook.chapters[k].order < pure.currentChapter[1].order}

\* C17: {storySoFar} resolves to the entries of exactly the chapters whose
\* order is below the order of the focus chapter (all chapters when there is
\* no focus chapter), by ascending order, the focus chapter never among them,
\* and to "No previous story context." when there is no such chapter.
C17_StorySoFar ==
    (pure.fn = "templateDone" /\ pure.text = <<Word("x"), Whitespace(" "), Placeholder("storySoFar")>>) =>
       LET cs == pure.currentBook.chapters
       IN  IF Qualifying = {}
           THEN pure.result = <<Word("x"), Whitespace(" "), Word("No previous story context.")>>
           ELSE \E f \in [1..Cardinality(Qualifying) -> Qualifying] :
                   /\ \A j, k \in DOMAIN f : j < k => f[j] # f[k] /\ cs[f[j]].order <= cs[f[k]].order
                   /\ \A k \in DOMAIN f : pure.currentChapter # <<>> => cs[f[k]] # pure.currentChapter[1]
                   /\ pure.result = <<Word("x"), Whitespace(" ")>> \o EntriesOf(cs, f)

\* {storySoFar} is resolved for the second of two chapters, the first with
\* a summary and a lower order: the result is the entry of the first only.
C17_Witness ==
    /\ pure.fn = "templateDone"
    /\ pure.text = <<Word("x"), Whitespace(" "), Placeholder("storySoFar")>>
    /\ Len(pure.currentBook.chapters) = 2
    /\ pure.currentBook.chapters[1].order = 1
    /\ pure.currentBook.chapters[1].summary = <<Word("s")>>
    /\ pure.currentBook.chapters[2].order = 2
    /\ pure.currentChapter = <<pure.currentBook.chapters[2]>>
    /\ pure.result = <<Word("x"), Whitespace(" "), Word("["), Word("T"), Word("1"), Word("]:"),
                       Whitespace(" "), Word("s")>>

\* The argument of a {lastWords:N} or {chapterSummary:N} placeholder is not
\* a positive integer.
Malformed(token) ==
    /\ token.kind \in {"lastWords", "chapterSummary"}
    /\ \/ ~IsDigits(token.arg)
       \/ \A k \in 1..Len(token.arg) : token.arg[k] = "0"

\* C18: a {lastWords:N} or {chapterSummary:N} placeholder with a non-numeric,
\* negative or zero argument resolves to the empty string: none is left in
\* the result.
C18_MalformedResolvesToEmpty ==
    pure.fn = "templateDone" => \A k \in 1..Len(pure.result) : ~Malformed(pure.result[k])

\* C19: text inserted by a substitution is not expanded again: the content
\* inserted for {currentChapter} and the label inserted for {pov} are in the
\* result as they are in the book.
C19_NoReExpansion ==
    pure.fn = "templateDone" =>
       /\ (pure.text = <<Placeholder("currentChapter")>> /\ pure.currentChapter # <<>>)
             => pure.result = pure.currentChapter[1].content
       /\ (pure.text = <<Placeholder("pov"), Whitespace(" "), Placeholder("tense")>>
              /\ pure.currentBook.pov # <<>>)
             => SubSeq(pure.result, 1, Len(pure.currentBook.pov)) = pure.currentBook.pov

\* The maximal runs of the content without whitespace, as pairs of
\* positions.
WordRuns(content) ==
    {r \in (1..Len(content)) \X (1..Len(content)) :
        /\ r[1] <= r[2]
        /\ \A k \in r[1]..r[2] : content[k].kind # "space"
        /\ r[1] = 1 \/ content[r[1] - 1].kind = "space"
        /\ r[2] = Len(content) \/ content[r[2] + 1].kind = "space"}

\* The runs of S in the order of the content, with one space between two.
RECURSIVE JoinRuns(_, _)
JoinRuns(content, S) ==
    IF S = {} THEN <<>>
    ELSE LET r == CHOOSE r \in S : \A q \in S : r[1] <= q[1]
         IN  SubSeq(content, r[1], r[2])
                \o (IF S \ {r} = {} THEN <<>> ELSE <<Whitespace(" ")>> \o JoinRuns(content, S \ {r}))

\* The last n runs of the content.
LastRuns(content, n) ==
    {r \in WordRuns(content) : Cardinality({q \in WordRuns(content) : q[1] > r[1]}) < n}

\* C20: {lastWords:N} resolves to the last N whitespace-delimited tokens of
\* the content of the focus chapter, joined by single spaces: all of them
\* when there are fewer than N, nothing when N is 0, the content is empty or
\* there is no focus chapter.
C20_LastWords ==
    pure.fn = "templateDone" =>
       \A n \in {1, 3, 10} :
          pure.text = <<PlaceholderN("lastWords", IF n = 10 THEN <<"1", "0">> ELSE <<ToString(n)>>)>> =>
             pure.result = IF pure.currentChapter = <<>> THEN <<>>
                           ELSE JoinRuns(pure.currentChapter[1].content,
                                         LastRuns(pure.currentChapter[1].content, n))

\* ------------------------------------------------------------------------
\* Properties of the prompt composition
\* ------------------------------------------------------------------------
\* A placeholder that the template resolver expands.
BookLevel(token) ==
    \/ token \in {Placeholder("pov"), Placeholder("tense"), Placeholder("currentChapter"),
                  Placeholder("storySoFar")}
    \/ token.kind \in {"lastWords", "chapterSummary"} /\ IsDigits(token.arg)

\* C21: the composers inject the caller-supplied texts before the book-level
\* placeholders are resolved, so no book-level placeholder of an injected
\* character, codex or suggestion text is left in the final instruction.
C21_InjectedTextIsExpanded ==
    pure.fn = "composed" => \A k \in 1..Len(pure.instruction) : ~BookLevel(pure.instruction[k])

\* A suggestion batch is composed from a template with {characters} for a
\* selected character whose description is {pov}, in a book told in the
\* first person: the instruction holds the label, not the placeholder.
C21_Witness ==
    /\ pure.fn = "composed"
    /\ pure.composer = "suggestions"
    /\ pure.template = <<Placeholder("characters"), Whitespace(" "), Placeholder("characters")>>
    /\ pure.selectedCharIds = {1}
    /\ pure.currentBook.characters[1].description = <<Placeholder("pov")>>
    /\ pure.currentBook.pov = <<Word("First Person")>>
    /\ pure.instruction = <<Word("Name:"), Whitespace(" "), Word("N"), Word("1"), Whitespace("\n"),
                            Word("Description:"), Whitespace(" "), Word("First Person"),
                            Whitespace(" "), Placeholder("characters")>>

\* The number of copies of the summary of chapter 1, the story so far of
\* chapter 2, in the prompt.
CopiesOfStory == Cardinality({k \in 1..Len(pure.fullPrompt) : pure.fullPrompt[k] = Word("s1")})

C22_ModeCopiedIntoConfig ==
    [][/\ \A modeId \in ModeIds :
             handleModeChange(modeId) =>
                suggestionConfig' = [activeModeId |-> modeId,
                                     text |-> Find(suggestionModes, modeId).text]
       /\ (saveSuggestionMode /\ editingSuggestionModeId # NewMode) =>
             /\ Find(suggestionModes', editingSuggestionModeId).text = "edited"
             /\ IF suggestionConfig.activeModeId = editingSuggestionModeId
                THEN suggestionConfig' = [activeModeId |-> editingSuggestionModeId, text |-> "edited"]
                ELSE suggestionConfig' = suggestionConfig]_vars

\* Mode 2 was selected and then edited: the live configuration names mode 2
\* and holds the edited text, and mode 1 was not touched.
C22_Witness ==
    /\ isLoaded
    /\ suggestionConfig = [activeModeId |-> 2, text |-> "edited"]
    /\ 2 \in Ids(suggestionModes) /\ Find(suggestionModes, 2).text = "edited"
    /\ 1 \in Ids(suggestionModes) /\ Find(suggestionModes, 1).text = "plot"

\* C28: once the application has loaded, the active mode of the live
\* configuration is one of the suggestion modes.
C28_ActiveModeExists == isLoaded => suggestionConfig.activeModeId \in Ids(suggestionModes)

\* C30: start-up terminates: isLoaded is eventually true, whatever the
\* outcome of each read of the store.
C30_StartupTerminates == <>isLoaded

\* ------------------------------------------------------------------------
\* Properties across slots
\* ------------------------------------------------------------------------
\* This step is an operation of slot s: a call of s starts, is stopped,
\* resolves, fails or settles.
OperationIn(s) == \E k \in 1..MaxCalls : calls'[<<s, k>>] # calls[<<s, k>>]

\* No call of slot s was started so far, so an error on display was
\* reported by another slot.
ErrorOfOthers(s) == errorState.set /\ \A k \in 1..MaxCalls : calls[<<s, k>>].st = "unused"

\* C12: an operation in one slot leaves the calls, the controller ref, the
\* busy flag and the result state of the other two slots unchanged, and
\* leaves an error reported by another slot on display.
C12_SlotsDoNotInterfere ==
    [][\A s \in Slots :
          OperationIn(s) =>
             /\ \A t \in Slots \ {s} :
                   /\ \A k \in 1..MaxCalls : calls'[<<t, k>>] = calls[<<t, k>>]
                   /\ ref'[t] = ref[t]
                   /\ busy'[t] = busy[t]
                   /\ Owned(t, chapters', brainstormMessages', brainstormInput',
                            generatedSuggestions')
                      = Owned(t, chapters, brainstormMessages, brainstormInput,
                              generatedSuggestions)
             /\ ErrorOfOthers(s) => errorState' = errorState]_vars

\* C27: in every slot, as long as a call that was not cancelled is
\* outstanding, the busy flag of the slot is set and the controller reference
\* of the slot points to that call.
C27_RunningCallCanBeStopped ==
    \A s \in Slots : \A k \in Outstanding(s) : busy[s] /\ ref[s] = k

\* ------------------------------------------------------------------------
\* Properties of the typewriter reveal
\* ------------------------------------------------------------------------
\* The chapter contents at which the reveal ti is at a token boundary: what
\* it started from, followed by the first j of its words.
Boundaries(ti) ==
    LET shown == Flatten(SubSeq(ti.words, 1, ti.currentIndex - 1))
        start == SubSeq(ti.currentContent, 1, Len(ti.currentContent) - Len(shown))
    IN  {start \o Flatten(SubSeq(ti.words, 1, j)) : j \in 0..Len(ti.words)}

\* C11: when a story generation is requested, or the result of a rephrase or
\* expand call is appended, while a reveal is running, the running reveal is
\* cancelled (its callback does not run again) and the chapter holds the
\* revealed text up to a token boundary.
C11_RequestCancelsReveal ==
    [][typingInterval.running =>
          /\ generateStory =>
                /\ ~typingInterval'.running
                /\ chapters'[typingInterval.chap] \in Boundaries(typingInterval)
          /\ (\E result \in RewriteResults : RephraseResolves(result)) =>
                /\ typingInterval'.running => typingInterval'.currentIndex = 1
                /\ chapters'[typingInterval.chap] \in Boundaries(typingInterval)]_vars

\* ------------------------------------------------------------------------
\* Properties of Undo and Retry
\* ------------------------------------------------------------------------
\* The Undo and Retry buttons are on display (1873).
UndoShown ==
    /\ lastAction.type \in {"story_gen", "story_paste"}
    /\ ~busy["story"] /\ ~isTyping

\* The last k characters of content are a text appended to what precedes them:
\* no character the user typed, and after a non-empty rest the separator first.
EndsWithAppended(content, k) ==
    /\ k <= Len(content)
    /\ LET rest == SubSeq(content, 1, Len(content) - k)
            tail == SubSeq(content, Len(content) - k + 1, Len(content))
       IN  /\ \A j \in 1..Len(tail) : tail[j] # "t"
           /\ (rest # <<>> /\ k > 0) => (k >= 2 /\ SubSeq(tail, 1, 2) = <<"n", "n">>)

\* C24: whenever the last action is a story generation or a paste and Undo
\* and Retry are offered, the content of the active chapter ends with the
\* text that action appended: its last responseLength characters.
C24_ContentEndsWithAppendedText ==
    UndoShown => EndsWithAppended(chapters[activeChapterId], lastAction.responseLength)

\* What Undo leaves in the active chapter when it is clicked in the next state.
UndoneContent == JsSliceEnd(chapters'[activeChapterId'], lastAction'.responseLength)

\* C25: Undo directly after a story generation has resolved, or after an
\* instant paste of a suggestion, leaves in the chapter the content the
\* action started from.
C25_UndoRestoresPriorContent ==
    [][/\ \A c \in CallIds : \A result \in Results :
             StoryResolves(c, result) => UndoneContent = calls[c].base
       /\ \A i \in 1..MaxReplyLen :
             (handleApplySuggestion(i) /\ typingSpeed <= 0)
                => UndoneContent = chapters[activeChapterId]]_vars

\* ------------------------------------------------------------------------
\* Properties of the write-back
\* ------------------------------------------------------------------------
IsPrefix(s, t) == Len(s) <= Len(t) /\ SubSeq(t, 1, Len(s)) = s

\* C26: when a story call resolves, the chapter it writes keeps the content
\* it had just before and gains text at its end only, and the other chapters
\* are left as they were; a tick of the reveal leaves the chapters other than
\* the revealed one as they were.
C26_WriteBackKeepsConcurrentChanges ==
    [][/\ \A c \in CallIds : \A result \in Results :
             StoryResolves(c, result) =>
                /\ IsPrefix(chapters[calls[c].chap], chapters'[calls[c].chap])
                /\ \A ch \in ChapterIds \ {calls[c].chap} : chapters'[ch] = chapters[ch]
       /\ Tick => \A ch \in ChapterIds \ {typingInterval.chap} : chapters'[ch] = chapters[ch]]_vars
====
